---- MODULE Spec2Model ----
(***************************************************************************)
(* Model of fiscal-crypt: point-in-time wallet valuation of the two        *)
(* platform interfaces (Coinbase, Coinbase Pro) and the French capital     *)
(* gains engine (FrenchTaxes).                                             *)
(*                                                                         *)
(* Instants are integers counting milliseconds.  A Decimal is an exact     *)
(* rational <<numerator, denominator>> in lowest terms; the 28-digit       *)
(* context precision of Python's decimal module is not reached by the      *)
(* values of this model.  A numeric string of the APIs ("-50.00", "") is   *)
(* a record [minus, digits]: digits is <<>> for a string without digits.   *)
(***************************************************************************)
EXTENDS Integers, Sequences, FiniteSets, TLC

VARIABLES
    platforms,   \* TaxProcessing.platforms_list: the loaded PlatformInterface objects
    tax,         \* the FrenchTaxes instance: currency, total_acquisition_price,
                 \* buy_transactions, sell_transactions
    last,        \* the last completed call: operation, arguments, outcome
    ncalls       \* number of get_tax_declaration_for calls made on the instance

vars == <<platforms, tax, last, ncalls>>

(***************************************************************************)
(* Bounds of the model.                                                    *)
(***************************************************************************)
MaxTime == 1    \* ledger movements are dated 0..MaxTime
MaxTx == 2      \* movements returned by the ledger source of a platform
MaxCalls == 2   \* declarations computed on one FrenchTaxes instance
MaxCoefficient == 100000000   \* largest numerator or denominator of a Decimal
MaxScale == 4                 \* most decimal places of a Decimal
MaxCandles == 2   \* candles returned by a price source for one hour

Times == 0..MaxTime
QueryTimes == 0..(MaxTime + 1)

(***************************************************************************)
(* decimal.Decimal under the default context of 28 significant digits.     *)
(* A Decimal is the fraction <<numerator, denominator>> in lowest terms.   *)
(* The model keeps to the values with at most MaxScale decimal places and  *)
(* a numerator and denominator up to MaxCoefficient: on these every        *)
(* operation of the context is exact.  A result outside them (a quotient   *)
(* the context would round, a coefficient too long) is Unrepresentable,    *)
(* and so is everything computed from it; no call that meets one is        *)
(* followed.                                                               *)
(***************************************************************************)
Abs(x) == IF x < 0 THEN -x ELSE x

RECURSIVE GCD(_, _)
GCD(a, b) == IF b = 0 THEN a ELSE GCD(b, a % b)

Norm(n, d) ==
    LET reduce(g, s) == <<(s * n) \div g, (s * d) \div g>>
    IN  reduce(GCD(Abs(n), Abs(d)), IF d < 0 THEN -1 ELSE 1)

Unrepresentable == <<1, 0>>
IsDec(a) == a[2] # 0
Fits(x, y) == x = 0 \/ y = 0 \/ Abs(x) <= MaxCoefficient \div Abs(y)

RECURSIVE PowerOfTen(_)
PowerOfTen(k) == IF k = 0 THEN 1 ELSE 10 * PowerOfTen(k - 1)
\* d is the denominator of a number of at most MaxScale decimal places
Terminates(d) == PowerOfTen(MaxScale) % d = 0

Dec(n) == <<n, 1>>

\* the operands are reduced crosswise before the coefficients are multiplied
DecMul(a, b) ==
    IF ~IsDec(a) \/ ~IsDec(b) THEN Unrepresentable
    ELSE LET product(n1, d1, n2, d2) ==
                 IF Fits(n1, n2) /\ Fits(d1, d2) /\ Terminates(d1 * d2)
                 THEN <<n1 * n2, d1 * d2>>
                 ELSE Unrepresentable
             reduced(g1, g2) ==
                 product(a[1] \div g1, a[2] \div g2, b[1] \div g2, b[2] \div g1)
         IN  reduced(GCD(Abs(a[1]), b[2]), GCD(Abs(b[1]), a[2]))

DecAdd(a, b) ==
    IF ~IsDec(a) \/ ~IsDec(b) THEN Unrepresentable
    ELSE LET sum(fa, fb) ==
                 IF Fits(a[1], fa) /\ Fits(b[1], fb) /\ Fits(a[2], fa)
                    /\ Abs(a[1] * fa) + Abs(b[1] * fb) <= MaxCoefficient
                 THEN Norm(a[1] * fa + b[1] * fb, a[2] * fa)
                 ELSE Unrepresentable
             scaled(g) == sum(b[2] \div g, a[2] \div g)
         IN  scaled(GCD(a[2], b[2]))

DecNeg(a) == <<-a[1], a[2]>>
DecSub(a, b) == DecAdd(a, DecNeg(b))
\* a / b for b # 0; the callers model the faults of a zero divisor
DecDiv(a, b) ==
    IF ~IsDec(b) THEN Unrepresentable
    ELSE DecMul(a, IF b[1] < 0 THEN <<-b[2], -b[1]>> ELSE <<b[2], b[1]>>)
DecIsZero(a) == a[1] = 0

(***************************************************************************)
(* Numeric strings.                                                        *)
(***************************************************************************)
Str(n) == [minus |-> n < 0, digits |-> <<Abs(n)>>]
MinusStr(n) == [minus |-> TRUE, digits |-> <<n>>]
EmptyStr == [minus |-> FALSE, digits |-> <<>>]

\* str.startswith(s, "-")
startswith_minus(s) == s.minus
\* s.replace("-", "")
replace_minus(s) == [s EXCEPT !.minus = FALSE]
\* Decimal(s) raises decimal.InvalidOperation on a string without digits
DecimalSyntaxOk(s) == s.digits # <<>>
Decimal(s) == Dec(IF s.minus THEN -(s.digits[1]) ELSE s.digits[1])

(***************************************************************************)
(* Price finders.  A finder quotes one pair from an instant on and gives   *)
(* the zero sentinel for anything else.                                    *)
(***************************************************************************)
get_rate_of(finder, pair, time) ==
    IF pair = <<finder.base, finder.quote>> /\ time >= finder.since
    THEN Dec(finder.rate)
    ELSE Dec(0)

(***************************************************************************)
(* The averages of the price finders (coinbasepro_finder.py,               *)
(* cryptowatch_finder.py).  The price sources answer in JSON numbers, read *)
(* as binary floats: a float is mantissa / 2^exponent.  A candle is the    *)
(* tuple of the source, its first field at index 1.                        *)
(***************************************************************************)
Float(mantissa, exponent) == [mantissa |-> mantissa, exponent |-> exponent]

RECURSIVE PowerOfTwo(_)
PowerOfTwo(k) == IF k = 0 THEN 1 ELSE 2 * PowerOfTwo(k - 1)

\* Decimal(float): the exact value of the binary float
DecimalOfFloat(f) ==
    IF Terminates(PowerOfTwo(f.exponent)) /\ Abs(f.mantissa) <= MaxCoefficient
    THEN Norm(f.mantissa, PowerOfTwo(f.exponent))
    ELSE Unrepresentable

\* mutant: the low of the candle stands for its price
CoinbaseProFinder_middle_price_low(rate) == DecimalOfFloat(rate[2])

\* a Coinbase Pro bucket is [time, low, high, open, close, volume]
CoinbaseProFinder_middle_price(rate) ==
    DecDiv(DecAdd(DecimalOfFloat(rate[2]), DecimalOfFloat(rate[3])), Dec(2))

RECURSIVE CoinbaseProFinder_average_loop(_, _, _, _)
CoinbaseProFinder_average_loop(rates, i, full_volume, full_prices) ==
    IF i > Len(rates)
    THEN IF ~DecIsZero(full_volume) THEN DecDiv(full_prices, full_volume) ELSE Dec(0)
    ELSE CoinbaseProFinder_average_loop(rates, i + 1,
            DecAdd(full_volume, DecimalOfFloat(rates[i][6])),
            DecAdd(full_prices, DecMul(CoinbaseProFinder_middle_price(rates[i]),
                                       DecimalOfFloat(rates[i][6]))))

CoinbaseProFinder_calculate_average(rates) ==
    CoinbaseProFinder_average_loop(rates, 1, Dec(0), Dec(0))

\* a Cryptowatch candlestick is
\* [close time, open, high, low, close, volume, quote volume]
RECURSIVE CryptowatchFinder_average_loop(_, _, _, _)
CryptowatchFinder_average_loop(rates, i, full_volume, full_prices) ==
    IF i > Len(rates)
    THEN IF ~DecIsZero(full_volume) THEN DecDiv(full_prices, full_volume) ELSE Dec(0)
    ELSE CryptowatchFinder_average_loop(rates, i + 1,
            DecAdd(full_volume, DecimalOfFloat(rates[i][6])),
            DecAdd(full_prices, DecimalOfFloat(rates[i][7])))

CryptowatchFinder_calculate_average(rates) ==
    CryptowatchFinder_average_loop(rates, 1, Dec(0), Dec(0))

(***************************************************************************)
(* PlatformInterface helpers (abs_platforms.py).                           *)
(***************************************************************************)
RECURSIVE find_account_loop(_, _, _)
find_account_loop(accounts, currency, i) ==
    IF i > Len(accounts) THEN ""
    ELSE IF accounts[i].currency = currency THEN accounts[i].id
    ELSE find_account_loop(accounts, currency, i + 1)

\* a lookup that falls back on the first account when none matches
_find_account_for_currency_or_first(p, currency) ==
    IF find_account_loop(p.accounts, currency, 1) = "" /\ Len(p.accounts) > 0
    THEN p.accounts[1].id
    ELSE find_account_loop(p.accounts, currency, 1)

_find_account_for_currency(p, currency) ==
    find_account_loop(p.accounts, currency, 1)

\* a loop that asks every finder and keeps the last non-zero rate
RECURSIVE finders_loop_to_the_end(_, _, _, _, _)
finders_loop_to_the_end(finders, i, pair, time, queried) ==
    IF i > Len(finders) THEN [rate |-> Dec(0), queried |-> queried]
    ELSE LET rest == finders_loop_to_the_end(finders, i + 1, pair, time,
                                             Append(queried, i))
         IN  IF DecIsZero(rest.rate)
             THEN [rate |-> get_rate_of(finders[i], pair, time), queried |-> rest.queried]
             ELSE rest

RECURSIVE finders_loop(_, _, _, _, _)
finders_loop(finders, i, pair, time, queried) ==
    IF i > Len(finders) THEN [rate |-> Dec(0), queried |-> queried]
    ELSE LET r == get_rate_of(finders[i], pair, time) IN
         IF ~DecIsZero(r)
         THEN [rate |-> r, queried |-> Append(queried, i)]
         ELSE finders_loop(finders, i + 1, pair, time, Append(queried, i))

\* user_input is what input() returns when the prompt is shown
_find_rate_value_from_finders(p, pair, time, user_input) ==
    LET found == finders_loop(p.price_finder, 1, pair, time, <<>>) IN
    IF DecIsZero(found.rate)
    THEN [rate |-> Decimal(user_input), queried |-> found.queried, prompted |-> TRUE]
    ELSE [rate |-> found.rate, queried |-> found.queried, prompted |-> FALSE]

(***************************************************************************)
(* Coinbase (coinbase.py): the tagged dialect.                             *)
(* A transaction is [resource_path, type, status, amount, native_amount,   *)
(* native_currency, created_at, updated_at, fees]; resource_path is the    *)
(* path split on "/", fees the fee amount of the full buy/sell object the  *)
(* API returns for the transaction.                                        *)
(***************************************************************************)
\* items[2] and items[3] of the Python list are elements 3 and 4 here
Coinbase_extract_account_id(path) ==
    IF path[3] # "accounts" THEN "ValueError" ELSE path[4]

\* the lookup loop has no break: the last account of the currency wins
RECURSIVE balance_account_loop(_, _, _, _)
balance_account_loop(accounts, currency, i, found) ==
    IF i > Len(accounts) THEN found
    ELSE balance_account_loop(accounts, currency, i + 1,
            IF accounts[i].currency = currency
            THEN [account_id |-> accounts[i].id,
                  current_balance |-> Decimal(accounts[i].balance)]
            ELSE found)

\* mutant: a transaction dated exactly at the instant is left applied
RECURSIVE Coinbase_reverse_loop_strict(_, _, _, _, _)
Coinbase_reverse_loop_strict(transactions, i, account_id, time, current_balance) ==
    IF i > Len(transactions) THEN current_balance
    ELSE LET transaction == transactions[i] IN
         Coinbase_reverse_loop_strict(transactions, i + 1, account_id, time,
            IF /\ Coinbase_extract_account_id(transaction.resource_path) = account_id
               /\ transaction.status = "completed"
               /\ transaction.updated_at > time
            THEN DecSub(current_balance, Decimal(transaction.amount))
            ELSE current_balance)

\* a replay that undoes a transaction whatever its status
RECURSIVE Coinbase_reverse_loop_any_status(_, _, _, _, _)
Coinbase_reverse_loop_any_status(transactions, i, account_id, time, current_balance) ==
    IF i > Len(transactions) THEN current_balance
    ELSE LET transaction == transactions[i] IN
         Coinbase_reverse_loop_any_status(transactions, i + 1, account_id, time,
            IF /\ Coinbase_extract_account_id(transaction.resource_path) = account_id
               /\ transaction.updated_at >= time
            THEN DecSub(current_balance, Decimal(transaction.amount))
            ELSE current_balance)

RECURSIVE Coinbase_reverse_loop(_, _, _, _, _)
Coinbase_reverse_loop(transactions, i, account_id, time, current_balance) ==
    IF i > Len(transactions) THEN current_balance
    ELSE LET transaction == transactions[i] IN
         Coinbase_reverse_loop(transactions, i + 1, account_id, time,
            IF /\ Coinbase_extract_account_id(transaction.resource_path) = account_id
               /\ transaction.status = "completed"
               /\ transaction.updated_at >= time
            THEN DecSub(current_balance, Decimal(transaction.amount))
            ELSE current_balance)

Coinbase_get_wallet_balance_at(p, currency, time) ==
    LET found == balance_account_loop(p.accounts, currency, 1,
                    [account_id |-> "", current_balance |-> Dec(0)])
    IN  IF found.account_id = ""
        THEN [raised |-> "ValueError", value |-> Dec(0)]
        ELSE [raised |-> "",
              value |-> Coinbase_reverse_loop(p.transactions, 1, found.account_id,
                                              time, found.current_balance)]

\* the outcome of one wallet valuation: the value, the finders asked (in
\* order), whether input() was called, whether the anomaly was logged
Unvalued(raised) ==
    [raised |-> raised, value |-> Dec(0), queried |-> <<>>,
     prompted |-> FALSE, warned |-> FALSE]

\* mutant: a missing rate is replaced by a rate of one, without a warning
Coinbase_value_of_balance_fabricated(p, crypto_currency, fiat_currency, time, balance) ==
    IF balance.raised # "" THEN Unvalued(balance.raised)
    ELSE IF ~DecIsZero(balance.value)
    THEN LET rate_currency == <<crypto_currency, fiat_currency>>
             rate_value == get_rate_of(p.price_finder, rate_currency, time)
         IN  [raised |-> "",
              value |-> IF DecIsZero(rate_value) THEN balance.value
                        ELSE DecMul(rate_value, balance.value),
              queried |-> <<1>>, prompted |-> FALSE, warned |-> FALSE]
    ELSE Unvalued("")

Coinbase_get_wallet_value_at_fabricated(p, crypto_currency, fiat_currency, time, user_input) ==
    Coinbase_value_of_balance_fabricated(p, crypto_currency, fiat_currency, time,
        Coinbase_get_wallet_balance_at(p, crypto_currency, time))

\* get_wallet_value_at from the balance on: balance is the outcome of
\* get_wallet_balance_at
Coinbase_value_of_balance(p, crypto_currency, fiat_currency, time, balance) ==
    IF balance.raised # "" THEN Unvalued(balance.raised)
    ELSE IF ~DecIsZero(balance.value)
    THEN LET rate_currency == <<crypto_currency, fiat_currency>>
             rate_value == get_rate_of(p.price_finder, rate_currency, time)
         IN  IF DecIsZero(rate_value)
             THEN [raised |-> "", value |-> Dec(0), queried |-> <<1>>,
                   prompted |-> FALSE, warned |-> TRUE]
             ELSE [raised |-> "", value |-> DecMul(rate_value, balance.value),
                   queried |-> <<1>>, prompted |-> FALSE, warned |-> FALSE]
    ELSE Unvalued("")

Coinbase_get_wallet_value_at(p, crypto_currency, fiat_currency, time, user_input) ==
    Coinbase_value_of_balance(p, crypto_currency, fiat_currency, time,
        Coinbase_get_wallet_balance_at(p, crypto_currency, time))

(***************************************************************************)
(* Coinbase Pro (coinbase_pro.py): the undifferentiated dialect.           *)
(* A movement is [type, amount, created_at, order_id, trade_id]; the       *)
(* loader adds account_id.                                                 *)
(***************************************************************************)
\* _load_all_transactions for the history of one account
RECURSIVE CoinbasePro_load_movements(_, _, _, _)
CoinbasePro_load_movements(movements_list, i, account_id, loaded) ==
    IF i > Len(movements_list) THEN loaded
    ELSE LET tmp_movement == [type |-> movements_list[i].type,
                              amount |-> movements_list[i].amount,
                              created_at |-> movements_list[i].created_at,
                              order_id |-> movements_list[i].order_id,
                              trade_id |-> movements_list[i].trade_id,
                              account_id |-> account_id]
         IN  CoinbasePro_load_movements(movements_list, i + 1, account_id,
                IF movements_list[i].type = "fee"
                THEN [loaded EXCEPT !.fee = Append(@, tmp_movement)]
                ELSE [loaded EXCEPT !.transactions = Append(@, tmp_movement)])

\* history[i] is what get_account_history returns for accounts[i]
RECURSIVE CoinbasePro_load_all_transactions(_, _, _, _)
CoinbasePro_load_all_transactions(accounts, history, i, loaded) ==
    IF i > Len(accounts) THEN loaded
    ELSE CoinbasePro_load_all_transactions(accounts, history, i + 1,
            CoinbasePro_load_movements(history[i], 1, accounts[i].id, loaded))

\* a replay that reverses the first movement of the account only
RECURSIVE CoinbasePro_reverse_loop_once(_, _, _, _, _)
CoinbasePro_reverse_loop_once(transactions, i, account_id, time, current_balance) ==
    IF i > Len(transactions) THEN current_balance
    ELSE LET transaction == transactions[i] IN
         IF /\ transaction.account_id = account_id
            /\ transaction.created_at >= time
         THEN DecSub(current_balance, Decimal(transaction.amount))
         ELSE CoinbasePro_reverse_loop_once(transactions, i + 1, account_id, time,
                                            current_balance)

RECURSIVE CoinbasePro_reverse_loop(_, _, _, _, _)
CoinbasePro_reverse_loop(transactions, i, account_id, time, current_balance) ==
    IF i > Len(transactions) THEN current_balance
    ELSE LET transaction == transactions[i] IN
         CoinbasePro_reverse_loop(transactions, i + 1, account_id, time,
            IF /\ transaction.account_id = account_id
               /\ transaction.created_at >= time
            THEN DecSub(current_balance, Decimal(transaction.amount))
            ELSE current_balance)

CoinbasePro_get_wallet_balance_at(p, currency, time) ==
    LET found == balance_account_loop(p.accounts, currency, 1,
                    [account_id |-> "", current_balance |-> Dec(0)])
    IN  IF found.account_id = ""
        THEN [raised |-> "ValueError", value |-> Dec(0)]
        ELSE [raised |-> "",
              value |-> CoinbasePro_reverse_loop(p.transactions, 1, found.account_id,
                                                 time, found.current_balance)]

\* mutant: the rate is asked for before the balance is looked at
CoinbasePro_value_of_balance_eager(p, crypto_currency, fiat_currency, time, user_input, balance) ==
    IF balance.raised # "" THEN Unvalued(balance.raised)
    ELSE LET priced(found) ==
                 [raised |-> "", value |-> DecMul(found.rate, balance.value),
                  queried |-> found.queried, prompted |-> found.prompted,
                  warned |-> DecIsZero(found.rate) /\ ~DecIsZero(balance.value)]
         IN  priced(_find_rate_value_from_finders(p, <<crypto_currency, fiat_currency>>,
                                                  time, user_input))

CoinbasePro_get_wallet_value_at_eager(p, crypto_currency, fiat_currency, time, user_input) ==
    CoinbasePro_value_of_balance_eager(p, crypto_currency, fiat_currency, time, user_input,
        CoinbasePro_get_wallet_balance_at(p, crypto_currency, time))

\* get_wallet_value_at from the rate on: found is the outcome of
\* _find_rate_value_from_finders
CoinbasePro_value_at_rate(balance, found) ==
    IF DecIsZero(found.rate)
    THEN [raised |-> "", value |-> Dec(0), queried |-> found.queried,
          prompted |-> found.prompted, warned |-> TRUE]
    ELSE [raised |-> "", value |-> DecMul(found.rate, balance.value),
          queried |-> found.queried, prompted |-> found.prompted,
          warned |-> FALSE]

\* get_wallet_value_at from the balance on
CoinbasePro_value_of_balance(p, crypto_currency, fiat_currency, time, user_input, balance) ==
    IF balance.raised # "" THEN Unvalued(balance.raised)
    ELSE IF ~DecIsZero(balance.value)
    THEN CoinbasePro_value_at_rate(balance,
            _find_rate_value_from_finders(p, <<crypto_currency, fiat_currency>>,
                                          time, user_input))
    ELSE Unvalued("")

CoinbasePro_get_wallet_value_at(p, crypto_currency, fiat_currency, time, user_input) ==
    CoinbasePro_value_of_balance(p, crypto_currency, fiat_currency, time, user_input,
        CoinbasePro_get_wallet_balance_at(p, crypto_currency, time))

(***************************************************************************)
(* Dispatch on the class of the platform object.                           *)
(***************************************************************************)
get_wallet_balance_at(p, currency, time) ==
    IF p.dialect = "coinbase"
    THEN Coinbase_get_wallet_balance_at(p, currency, time)
    ELSE CoinbasePro_get_wallet_balance_at(p, currency, time)

get_wallet_value_at(p, crypto_currency, fiat_currency, time, user_input) ==
    IF p.dialect = "coinbase"
    THEN Coinbase_get_wallet_value_at(p, crypto_currency, fiat_currency, time, user_input)
    ELSE CoinbasePro_get_wallet_value_at(p, crypto_currency, fiat_currency, time, user_input)

\* overall_value += wallet_value, and the outcome of the call kept
add_wallet(acc, wallet) ==
    [overall_value |-> DecAdd(acc.overall_value, wallet.value),
     wallets |-> Append(acc.wallets, wallet)]

\* mutant: the account of the fiat currency is valued like the others
RECURSIVE all_wallets_loop_with_fiat(_, _, _, _, _, _)
all_wallets_loop_with_fiat(p, i, currency, time, user_input, acc) ==
    IF i > Len(p.accounts) THEN acc
    ELSE all_wallets_loop_with_fiat(p, i + 1, currency, time, user_input,
            add_wallet(acc, get_wallet_value_at(p, p.accounts[i].currency, currency,
                                                time, user_input)))

\* get_all_wallets_value has the same text in both classes; wallets collects
\* the outcome of every get_wallet_value_at call it makes
RECURSIVE all_wallets_loop(_, _, _, _, _, _)
all_wallets_loop(p, i, currency, time, user_input, acc) ==
    IF i > Len(p.accounts) THEN acc
    ELSE IF p.accounts[i].currency # currency
    THEN all_wallets_loop(p, i + 1, currency, time, user_input,
            add_wallet(acc, get_wallet_value_at(p, p.accounts[i].currency, currency,
                                                time, user_input)))
    ELSE all_wallets_loop(p, i + 1, currency, time, user_input, acc)

get_all_wallets_value(p, currency, time, user_input) ==
    all_wallets_loop(p, 1, currency, time, user_input,
                     [overall_value |-> Dec(0), wallets |-> <<>>])

(***************************************************************************)
(* Transaction classifiers.  A generator traversal gives the records       *)
(* yielded, in order, and the exception that ended it ("" for none).       *)
(***************************************************************************)
\* a traversal that also takes the trade dated end_time itself
RECURSIVE Coinbase_trades_loop_inclusive(_, _, _, _, _, _, _)
Coinbase_trades_loop_inclusive(transactions, i, account_to_ignore_id, type, currency, end_time, yielded) ==
    IF i > Len(transactions) THEN [raised |-> "", items |-> yielded]
    ELSE LET transaction == transactions[i]
             account == Coinbase_extract_account_id(transaction.resource_path)
         IN  IF (account # account_to_ignore_id) /\ (transaction.type = type)
             THEN IF transaction.native_currency # currency
                  THEN [raised |-> "ValueError", items |-> yielded]
                  ELSE Coinbase_trades_loop_inclusive(transactions, i + 1,
                          account_to_ignore_id, type, currency, end_time,
                          IF transaction.created_at <= end_time
                          THEN Append(yielded,
                                  [date |-> transaction.created_at,
                                   currency |-> transaction.native_currency,
                                   amount |-> transaction.native_amount,
                                   fee |-> transaction.fees])
                          ELSE yielded)
             ELSE Coinbase_trades_loop_inclusive(transactions, i + 1,
                     account_to_ignore_id, type, currency, end_time, yielded)

\* a traversal that passes over a trade in another currency
RECURSIVE Coinbase_trades_loop_lenient(_, _, _, _, _, _, _)
Coinbase_trades_loop_lenient(transactions, i, account_to_ignore_id, type, currency, end_time, yielded) ==
    IF i > Len(transactions) THEN [raised |-> "", items |-> yielded]
    ELSE LET transaction == transactions[i]
             account == Coinbase_extract_account_id(transaction.resource_path)
         IN  Coinbase_trades_loop_lenient(transactions, i + 1, account_to_ignore_id,
                type, currency, end_time,
                IF /\ account # account_to_ignore_id
                   /\ transaction.type = type
                   /\ transaction.native_currency = currency
                   /\ transaction.created_at < end_time
                THEN Append(yielded,
                        [date |-> transaction.created_at,
                         currency |-> transaction.native_currency,
                         amount |-> transaction.native_amount,
                         fee |-> transaction.fees])
                ELSE yielded)

RECURSIVE Coinbase_trades_loop(_, _, _, _, _, _, _)
Coinbase_trades_loop(transactions, i, account_to_ignore_id, type, currency, end_time, yielded) ==
    IF i > Len(transactions) THEN [raised |-> "", items |-> yielded]
    ELSE LET transaction == transactions[i]
             account == Coinbase_extract_account_id(transaction.resource_path)
         IN  IF (account # account_to_ignore_id) /\ (transaction.type = type)
             THEN IF transaction.native_currency # currency
                  THEN [raised |-> "ValueError", items |-> yielded]
                  ELSE Coinbase_trades_loop(transactions, i + 1, account_to_ignore_id,
                          type, currency, end_time,
                          IF transaction.created_at < end_time
                          THEN Append(yielded,
                                  [date |-> transaction.created_at,
                                   currency |-> transaction.native_currency,
                                   amount |-> transaction.native_amount,
                                   fee |-> transaction.fees])
                          ELSE yielded)
             ELSE Coinbase_trades_loop(transactions, i + 1, account_to_ignore_id,
                     type, currency, end_time, yielded)

Coinbase_all_sell_transactions_generator(p, currency, end_time) ==
    LET account_to_ignore_id == _find_account_for_currency(p, currency) IN
    IF account_to_ignore_id = ""
    THEN [raised |-> "ValueError", items |-> <<>>]
    ELSE Coinbase_trades_loop(p.transactions, 1, account_to_ignore_id, "sell",
                              currency, end_time, <<>>)

Coinbase_all_buy_transactions_generator(p, currency, end_time) ==
    LET account_to_ignore_id == _find_account_for_currency(p, currency) IN
    IF account_to_ignore_id = ""
    THEN [raised |-> "ValueError", items |-> <<>>]
    ELSE Coinbase_trades_loop(p.transactions, 1, account_to_ignore_id, "buy",
                              currency, end_time, <<>>)

RECURSIVE fee_loop(_, _, _, _)
fee_loop(fee, i, order_id, trade_id) ==
    IF i > Len(fee) THEN EmptyStr
    ELSE IF (fee[i].order_id = order_id) /\ (fee[i].trade_id = trade_id)
    THEN fee[i].amount
    ELSE fee_loop(fee, i + 1, order_id, trade_id)

CoinbasePro_find_fee_for_order(p, order_id, trade_id) ==
    fee_loop(p.fee, 1, order_id, trade_id)

RECURSIVE CoinbasePro_sell_loop(_, _, _, _, _, _)
CoinbasePro_sell_loop(p, i, account_id, currency, end_time, yielded) ==
    IF i > Len(p.transactions) THEN [raised |-> "", items |-> yielded]
    ELSE LET transaction == p.transactions[i] IN
         CoinbasePro_sell_loop(p, i + 1, account_id, currency, end_time,
            IF /\ transaction.account_id = account_id
               /\ transaction.type = "match"
               /\ transaction.created_at < end_time
               /\ ~startswith_minus(transaction.amount)
            THEN Append(yielded,
                    [date |-> transaction.created_at,
                     currency |-> currency,
                     amount |-> transaction.amount,
                     fee |-> CoinbasePro_find_fee_for_order(p, transaction.order_id,
                                                            transaction.trade_id)])
            ELSE yielded)

CoinbasePro_all_sell_transactions_generator(p, currency, end_time) ==
    LET account_id == _find_account_for_currency(p, currency) IN
    IF account_id = ""
    THEN [raised |-> "ValueError", items |-> <<>>]
    ELSE CoinbasePro_sell_loop(p, 1, account_id, currency, end_time, <<>>)

\* a buy stream that takes every fiat leg, whatever its sign
RECURSIVE CoinbasePro_buy_loop_any_sign(_, _, _, _, _, _)
CoinbasePro_buy_loop_any_sign(p, i, account_id, currency, end_time, yielded) ==
    IF i > Len(p.transactions) THEN [raised |-> "", items |-> yielded]
    ELSE LET transaction == p.transactions[i] IN
         CoinbasePro_buy_loop_any_sign(p, i + 1, account_id, currency, end_time,
            IF /\ transaction.account_id = account_id
               /\ transaction.type = "match"
               /\ transaction.created_at < end_time
            THEN Append(yielded,
                    [date |-> transaction.created_at,
                     currency |-> currency,
                     amount |-> transaction.amount,
                     fee |-> CoinbasePro_find_fee_for_order(p, transaction.order_id,
                                                            transaction.trade_id)])
            ELSE yielded)

RECURSIVE CoinbasePro_buy_loop(_, _, _, _, _, _)
CoinbasePro_buy_loop(p, i, account_id, currency, end_time, yielded) ==
    IF i > Len(p.transactions) THEN [raised |-> "", items |-> yielded]
    ELSE LET transaction == p.transactions[i] IN
         CoinbasePro_buy_loop(p, i + 1, account_id, currency, end_time,
            IF /\ transaction.account_id = account_id
               /\ transaction.type = "match"
               /\ transaction.created_at < end_time
               /\ startswith_minus(transaction.amount)
            THEN Append(yielded,
                    [date |-> transaction.created_at,
                     currency |-> currency,
                     amount |-> transaction.amount,
                     fee |-> CoinbasePro_find_fee_for_order(p, transaction.order_id,
                                                            transaction.trade_id)])
            ELSE yielded)

CoinbasePro_all_buy_transactions_generator(p, currency, end_time) ==
    LET account_id == _find_account_for_currency(p, currency) IN
    IF account_id = ""
    THEN [raised |-> "ValueError", items |-> <<>>]
    ELSE CoinbasePro_buy_loop(p, 1, account_id, currency, end_time, <<>>)

all_sell_transactions_generator(p, currency, end_time) ==
    IF p.dialect = "coinbase"
    THEN Coinbase_all_sell_transactions_generator(p, currency, end_time)
    ELSE CoinbasePro_all_sell_transactions_generator(p, currency, end_time)

all_buy_transactions_generator(p, currency, end_time) ==
    IF p.dialect = "coinbase"
    THEN Coinbase_all_buy_transactions_generator(p, currency, end_time)
    ELSE CoinbasePro_all_buy_transactions_generator(p, currency, end_time)

(***************************************************************************)
(* TaxProcessing (abs_tax_processing.py) and FrenchTaxes                   *)
(* (french_taxes.py).                                                      *)
(***************************************************************************)
\* the records are appended one by one while a generator runs: what it
\* yielded before raising stays in the lists
extend_buys(acc, buys) ==
    [acc EXCEPT !.buy_transactions = @ \o buys.items, !.raised = buys.raised]

extend_sells(acc, sells) ==
    [acc EXCEPT !.sell_transactions = @ \o sells.items, !.raised = sells.raised]

RECURSIVE load_platforms_loop(_, _, _, _, _)
RECURSIVE load_platform_sells(_, _, _, _, _)
RECURSIVE load_next_platform(_, _, _, _, _)

\* the end of one turn of the loop: an exception leaves the loop
load_next_platform(platforms_list, i, currency, end_time, with_sells) ==
    IF with_sells.raised # "" THEN with_sells
    ELSE load_platforms_loop(platforms_list, i + 1, currency, end_time, with_sells)

\* the second inner loop, over the sells of platform i
load_platform_sells(platforms_list, i, currency, end_time, with_buys) ==
    IF with_buys.raised # "" THEN with_buys
    ELSE load_next_platform(platforms_list, i, currency, end_time,
            extend_sells(with_buys,
                all_sell_transactions_generator(platforms_list[i], currency, end_time)))

\* the first inner loop, over the buys of platform i
load_platforms_loop(platforms_list, i, currency, end_time, acc) ==
    IF i > Len(platforms_list) THEN acc
    ELSE load_platform_sells(platforms_list, i, currency, end_time,
            extend_buys(acc,
                all_buy_transactions_generator(platforms_list[i], currency, end_time)))

\* self is the FrenchTaxes instance; the lists of the instance are extended
_load_and_sort_all_transactions(self, platforms_list, end_time) ==
    load_platforms_loop(platforms_list, 1, self.currency, end_time,
        [raised |-> "",
         buy_transactions |-> self.buy_transactions,
         sell_transactions |-> self.sell_transactions])

RECURSIVE overall_loop(_, _, _, _, _, _)
overall_loop(platforms_list, i, currency, time, user_input, result) ==
    IF i > Len(platforms_list) THEN result
    ELSE overall_loop(platforms_list, i + 1, currency, time, user_input,
            DecAdd(result, get_all_wallets_value(platforms_list[i], currency,
                                                 time, user_input).overall_value))

\* mutant: the portfolio is valued at the date of the sell itself
_get_overall_wallets_value_at_date(self, platforms_list, time, user_input) ==
    overall_loop(platforms_list, 1, self.currency, time + 1, user_input, Dec(0))

_get_overall_wallets_value(self, platforms_list, time, user_input) ==
    overall_loop(platforms_list, 1, self.currency, time, user_input, Dec(0))

\* a sort that puts a record before the records of its date
RECURSIVE insert_by_date_unstable(_, _)
insert_by_date_unstable(sorted, x) ==
    IF sorted = <<>> THEN <<x>>
    ELSE IF sorted[Len(sorted)].date < x.date THEN Append(sorted, x)
    ELSE Append(insert_by_date_unstable(SubSeq(sorted, 1, Len(sorted) - 1), x),
                sorted[Len(sorted)])

\* sorted(tmp_transactions, key=date): a stable insertion sort
RECURSIVE insert_by_date(_, _)
insert_by_date(sorted, x) ==
    IF sorted = <<>> THEN <<x>>
    ELSE IF sorted[Len(sorted)].date <= x.date THEN Append(sorted, x)
    ELSE Append(insert_by_date(SubSeq(sorted, 1, Len(sorted) - 1), x),
                sorted[Len(sorted)])

RECURSIVE sorted_by_date(_)
sorted_by_date(list) ==
    IF list = <<>> THEN <<>>
    ELSE insert_by_date(sorted_by_date(SubSeq(list, 1, Len(list) - 1)),
                        list[Len(list)])

pre_process(type, trade) ==
    [type |-> type,
     date |-> trade.date,
     currency |-> trade.currency,
     amount |-> Decimal(replace_minus(trade.amount)),
     fee |-> Decimal(replace_minus(trade.fee))]

\* mutant: the sells are copied before the buys
_merge_and_pre_process_sells_first(buy_transactions, sell_transactions) ==
    LET ok(trade) == DecimalSyntaxOk(trade.amount) /\ DecimalSyntaxOk(trade.fee)
        all_ok == /\ \A i \in DOMAIN buy_transactions : ok(buy_transactions[i])
                  /\ \A i \in DOMAIN sell_transactions : ok(sell_transactions[i])
    IN  IF ~all_ok
        THEN [raised |-> "decimal.InvalidOperation[ConversionSyntax]",
              all_transactions |-> <<>>]
        ELSE LET tmp_transactions ==
                    [i \in DOMAIN sell_transactions |->
                        pre_process("sell", sell_transactions[i])]
                    \o [i \in DOMAIN buy_transactions |->
                        pre_process("buy", buy_transactions[i])]
             IN  [raised |-> "", all_transactions |-> sorted_by_date(tmp_transactions)]

_merge_and_pre_process_transactions(buy_transactions, sell_transactions) ==
    LET ok(trade) == DecimalSyntaxOk(trade.amount) /\ DecimalSyntaxOk(trade.fee)
        all_ok == /\ \A i \in DOMAIN buy_transactions : ok(buy_transactions[i])
                  /\ \A i \in DOMAIN sell_transactions : ok(sell_transactions[i])
    IN  IF ~all_ok
        THEN [raised |-> "decimal.InvalidOperation[ConversionSyntax]",
              all_transactions |-> <<>>]
        ELSE LET tmp_transactions ==
                    [i \in DOMAIN buy_transactions |->
                        pre_process("buy", buy_transactions[i])]
                    \o [i \in DOMAIN sell_transactions |->
                        pre_process("sell", sell_transactions[i])]
             IN  [raised |-> "", all_transactions |-> sorted_by_date(tmp_transactions)]

\* mutant: the basis is reduced by the cession price itself
sell_operation_whole(transaction, acquisition_price, global_value) ==
    [date |-> transaction.date,
     capital_gain |->
        DecSub(transaction.amount,
               DecDiv(DecMul(transaction.amount, acquisition_price), global_value)),
     cession_price |-> transaction.amount,
     fee |-> transaction.fee,
     acquisition_price |-> acquisition_price,
     global_value |-> global_value,
     new_total_acquisition_price |-> DecSub(acquisition_price, transaction.amount)]

\* one sell: the logged figures and the new total acquisition price
sell_operation(transaction, acquisition_price, global_value) ==
    [date |-> transaction.date,
     capital_gain |->
        DecSub(transaction.amount,
               DecDiv(DecMul(transaction.amount, acquisition_price), global_value)),
     cession_price |-> transaction.amount,
     fee |-> transaction.fee,
     acquisition_price |-> acquisition_price,
     global_value |-> global_value,
     new_total_acquisition_price |->
        DecSub(acquisition_price,
               DecDiv(DecMul(transaction.amount, acquisition_price), global_value))]

\* the assignments that end the turn of a sell
after_sell(acc, sell) ==
    [acc EXCEPT !.total_acquisition_price = sell.new_total_acquisition_price,
                !.total_capital_gains = DecAdd(@, sell.capital_gain),
                !.sells = Append(@, sell)]

\* the division by a zero global value: 0/0 and x/0 are different signals
division_fault(acc, transaction) ==
    [acc EXCEPT !.raised =
        IF DecIsZero(DecMul(transaction.amount, acc.total_acquisition_price))
        THEN "decimal.InvalidOperation[DivisionUndefined]"
        ELSE "decimal.DivisionByZero"]

\* the loop over the preprocessed transactions; acc holds
\* total_acquisition_price, total_capital_gains and the sells logged so far
RECURSIVE gains_loop(_, _, _, _, _, _)
RECURSIVE sell_turn(_, _, _, _, _, _, _)

\* the turn of a sell, from the global value on
sell_turn(self, platforms_list, preprocessed_transactions, i, user_input, acc, global_value) ==
    IF DecIsZero(global_value)
    THEN division_fault(acc, preprocessed_transactions[i])
    ELSE gains_loop(self, platforms_list, preprocessed_transactions, i + 1, user_input,
            after_sell(acc, sell_operation(preprocessed_transactions[i],
                                           acc.total_acquisition_price, global_value)))

gains_loop(self, platforms_list, preprocessed_transactions, i, user_input, acc) ==
    IF i > Len(preprocessed_transactions) THEN acc
    ELSE IF preprocessed_transactions[i].type = "buy"
    THEN gains_loop(self, platforms_list, preprocessed_transactions, i + 1, user_input,
            [acc EXCEPT !.total_acquisition_price =
                            DecAdd(@, preprocessed_transactions[i].amount)])
    ELSE sell_turn(self, platforms_list, preprocessed_transactions, i, user_input, acc,
            _get_overall_wallets_value(self, platforms_list,
                preprocessed_transactions[i].date - 1, user_input))

\* Python's None, and a list of records with an aggregate, as return values
NoneValue == [none |-> TRUE, records |-> <<>>, aggregate |-> Dec(0)]
Returned(records, aggregate) == [none |-> FALSE, records |-> records, aggregate |-> aggregate]

\* the cost basis the walk starts from
initial_acquisition_price(self) == self.total_acquisition_price

\* the outcome of a call an exception ends
Raised(self, raised) ==
    [self |-> self, stream |-> <<>>, returned |-> NoneValue,
     acc |-> [raised |-> raised, total_acquisition_price |-> self.total_acquisition_price,
              total_capital_gains |-> Dec(0), sells |-> <<>>]]

\* the end of the call: the function has no return statement, so the caller
\* receives None
declaration_end(self, stream, acc) ==
    [self |-> [self EXCEPT !.total_acquisition_price = acc.total_acquisition_price],
     stream |-> stream, returned |-> NoneValue, acc |-> acc]

\* the call from the merged stream on
declaration_of_stream(self, platforms_list, user_input, merged) ==
    IF merged.raised # "" THEN Raised(self, merged.raised)
    ELSE declaration_end(self, merged.all_transactions,
            gains_loop(self, platforms_list, merged.all_transactions, 1, user_input,
                [raised |-> "",
                 total_acquisition_price |-> initial_acquisition_price(self),
                 total_capital_gains |-> Dec(0), sells |-> <<>>]))

\* the call from the loaded lists on; self holds them
declaration_of_loaded(self, platforms_list, user_input, raised) ==
    IF raised # "" THEN Raised(self, raised)
    ELSE declaration_of_stream(self, platforms_list, user_input,
            _merge_and_pre_process_transactions(self.buy_transactions,
                                                self.sell_transactions))

\* the lists of the instance after _load_and_sort_all_transactions
with_loaded(self, loaded) ==
    [self EXCEPT !.buy_transactions = loaded.buy_transactions,
                 !.sell_transactions = loaded.sell_transactions]

\* the whole call: the new fields of the instance and the outcome
get_tax_declaration_for(self, platforms_list, fiat_currency, start_time, end_time, user_input) ==
    declaration_of_loaded(
        with_loaded(self, _load_and_sort_all_transactions(self, platforms_list, end_time)),
        platforms_list, user_input,
        _load_and_sort_all_transactions(self, platforms_list, end_time).raised)

(***************************************************************************)
(* The ledgers and price finders the platforms are constructed from.       *)
(***************************************************************************)
\* sequences over S of length at most n
RECURSIVE SeqUpTo(_, _)
SeqUpTo(S, n) ==
    IF n = 0 THEN {<<>>}
    ELSE LET shorter == SeqUpTo(S, n - 1) IN
         shorter \cup {Append(q, x) : q \in {r \in shorter : Len(r) = n - 1}, x \in S}

Account(id, currency, balance) == [id |-> id, currency |-> currency, balance |-> balance]

Finder(base, quote, since, rate) ==
    [base |-> base, quote |-> quote, since |-> since, rate |-> rate]

CoinbaseTransaction(account, type, status, amount, native, at, updated, fees) ==
    [resource_path |-> <<"", "v2", "accounts", account, "transactions", "tx">>,
     type |-> type, status |-> status, amount |-> amount,
     native_amount |-> native, native_currency |-> "EUR",
     created_at |-> at, updated_at |-> updated, fees |-> fees]

Movement(account, type, amount, at, trade_id) ==
    [of |-> account, type |-> type, amount |-> amount, created_at |-> at,
     order_id |-> "o1", trade_id |-> trade_id]

\* get_account_history for each account, in the order of the accounts
History(accounts, movements) ==
    [i \in DOMAIN accounts |-> SelectSeq(movements, LAMBDA m : m.of = accounts[i].id)]

\* the object the Coinbase constructor leaves: every transaction is kept
CoinbasePlatform(accounts, transactions, finder) ==
    [dialect |-> "coinbase", accounts |-> accounts, transactions |-> transactions,
     fee |-> <<>>, price_finder |-> finder]

\* the object the Coinbase Pro constructor leaves: the loader splits the
\* movements into transactions and fee
CoinbaseProPlatform(accounts, movements, finders) ==
    LET loaded == CoinbasePro_load_all_transactions(accounts,
                      History(accounts, movements), 1,
                      [transactions |-> <<>>, fee |-> <<>>])
    IN  [dialect |-> "coinbasepro", accounts |-> accounts,
         transactions |-> loaded.transactions, fee |-> loaded.fee,
         price_finder |-> finders]

NoCall == [op |-> "none"]

NewFrenchTaxes(currency) ==
    [currency |-> currency, total_acquisition_price |-> Dec(0),
     buy_transactions |-> <<>>, sell_transactions |-> <<>>]

(***************************************************************************)
(* Wallet valuation: one platform, any ledger.                             *)
(***************************************************************************)
WalletAccounts ==
    { <<Account("eur", "EUR", Str(500)), Account("btc", "BTC", Str(2)),
        Account("eth", "ETH", Str(1))>>,
      <<Account("btc", "BTC", Str(2)), Account("eur", "EUR", Str(500)),
        Account("btc2", "BTC", Str(0))>> }

WalletCoinbaseTransactions ==
    { CoinbaseTransaction("btc", "send", status, amount, Str(0), t, t, Str(0)) :
        status \in {"completed", "pending"}, amount \in {MinusStr(1), Str(2)},
        t \in Times }
    \cup { CoinbaseTransaction("eur", "send", "completed", Str(5), Str(0), t, t, Str(0)) :
        t \in Times }

WalletMovements ==
    { Movement("btc", "transfer", amount, t, "t1") :
        amount \in {MinusStr(1), Str(2)}, t \in Times }
    \cup { Movement("btc", "fee", MinusStr(1), t, "t1") : t \in Times }
    \cup { Movement("eur", "transfer", Str(5), t, "t1") : t \in Times }

BtcFinder == Finder("BTC", "EUR", 1, 1000)
UsdFinder == Finder("BTC", "USD", 0, 1200)
OldFinder == Finder("BTC", "EUR", 0, 900)

WalletCoinbasePlatforms ==
    { CoinbasePlatform(accounts, transactions, BtcFinder) :
        accounts \in WalletAccounts,
        transactions \in SeqUpTo(WalletCoinbaseTransactions, MaxTx) }

WalletCoinbaseProPlatforms ==
    { CoinbaseProPlatform(accounts, movements, finders) :
        accounts \in WalletAccounts,
        movements \in SeqUpTo(WalletMovements, MaxTx),
        finders \in {<<UsdFinder, BtcFinder>>, <<BtcFinder, OldFinder>>} }

UserInputs == {Str(0), Str(3)}

InitWallet ==
    /\ \/ \E p \in WalletCoinbasePlatforms : platforms = <<p>>
       \/ \E p \in WalletCoinbaseProPlatforms : platforms = <<p>>
    /\ tax = NewFrenchTaxes("EUR")
    /\ last = NoCall
    /\ ncalls = 0

\* A query leaves the platform as it is: the session is followed for one
\* query on the loaded platform.  Answer records the call and its outcome.
Answer(call) ==
    /\ last = NoCall
    /\ last' = call
    /\ UNCHANGED <<platforms, tax, ncalls>>

BalanceCall(i, currency, time, r) ==
    [op |-> "get_wallet_balance_at", platform |-> i, currency |-> currency,
     time |-> time, raised |-> r.raised, value |-> r.value]

GetWalletBalanceAt(i, currency, time) ==
    Answer(BalanceCall(i, currency, time,
                       get_wallet_balance_at(platforms[i], currency, time)))

ValueCall(i, crypto_currency, fiat_currency, time, user_input, r) ==
    [op |-> "get_wallet_value_at", platform |-> i,
     crypto_currency |-> crypto_currency, fiat_currency |-> fiat_currency,
     time |-> time, raised |-> r.raised, value |-> r.value,
     queried |-> r.queried, prompted |-> r.prompted, warned |-> r.warned,
     user_input |-> IF r.prompted THEN user_input ELSE EmptyStr]

GetWalletValueAt(i, crypto_currency, fiat_currency, time, user_input) ==
    Answer(ValueCall(i, crypto_currency, fiat_currency, time, user_input,
                     get_wallet_value_at(platforms[i], crypto_currency, fiat_currency,
                                         time, user_input)))

AllWalletsCall(i, currency, time, user_input, r) ==
    [op |-> "get_all_wallets_value", platform |-> i, currency |-> currency,
     time |-> time, value |-> r.overall_value, wallets |-> r.wallets,
     user_input |-> IF \E k \in DOMAIN r.wallets : r.wallets[k].prompted
                    THEN user_input ELSE EmptyStr]

GetAllWalletsValue(i, currency, time, user_input) ==
    Answer(AllWalletsCall(i, currency, time, user_input,
                          get_all_wallets_value(platforms[i], currency, time, user_input)))

NextWallet ==
    \/ \E i \in DOMAIN platforms, currency \in {"EUR", "BTC", "XRP"}, time \in QueryTimes :
          GetWalletBalanceAt(i, currency, time)
    \/ \E i \in DOMAIN platforms, crypto_currency \in {"BTC", "ETH"},
          time \in QueryTimes, user_input \in UserInputs :
          GetWalletValueAt(i, crypto_currency, "EUR", time, user_input)
    \/ \E i \in DOMAIN platforms, currency \in {"EUR", "BTC"}, time \in QueryTimes,
          user_input \in UserInputs :
          GetAllWalletsValue(i, currency, time, user_input)

SpecWallet == InitWallet /\ [][NextWallet]_vars

(***************************************************************************)
(* Declarations: one or two platforms with buys and sells, one FrenchTaxes *)
(* instance in EUR.                                                        *)
(***************************************************************************)
TaxAccounts == <<Account("eur", "EUR", Str(500)), Account("btc", "BTC", Str(2))>>

TaxFinder == Finder("BTC", "EUR", 0, 1000)

\* a buy of 1 BTC for 1000 EUR, a sell of 1 BTC for 100 EUR
TaxCoinbaseTransactions ==
    { CoinbaseTransaction("btc", "buy", "completed", Str(1), Str(1000), t, t, Str(1)) :
        t \in Times }
    \cup { CoinbaseTransaction("btc", "sell", "completed", MinusStr(1), MinusStr(100),
                               t, t, Str(1)) : t \in Times }

\* the fiat legs of a buy and of a sell, and a crypto leg
TaxMovements ==
    { Movement("eur", "match", amount, t, "t1") :
        amount \in {MinusStr(1000), Str(100)}, t \in Times }
    \cup { Movement("btc", "match", Str(1), t, "t1") : t \in Times }

TaxFees == { <<>>, <<Movement("eur", "fee", MinusStr(1), 0, "t1")>> }

TaxCoinbasePlatforms ==
    { CoinbasePlatform(TaxAccounts, transactions, TaxFinder) :
        transactions \in SeqUpTo(TaxCoinbaseTransactions, MaxTx) }

TaxCoinbaseProPlatforms ==
    { CoinbaseProPlatform(TaxAccounts, movements \o fees, <<TaxFinder>>) :
        movements \in SeqUpTo(TaxMovements, MaxTx), fees \in TaxFees }

\* a second tracked platform: a buy for 1000 EUR and a sell of 100 EUR, both at
\* the last instant
SecondPlatform ==
    CoinbaseProPlatform(
        <<Account("eur", "EUR", Str(100)), Account("btc", "BTC", Str(1))>>,
        <<Movement("eur", "match", MinusStr(1000), MaxTime, "t1"),
          Movement("eur", "match", Str(100), MaxTime, "t1"),
          Movement("eur", "fee", MinusStr(1), MaxTime, "t1")>>,
        <<TaxFinder>>)

DeclarationStarts == {0, 1}
DeclarationEnds == {MaxTime, MaxTime + 1}
ManualRates == {Str(0), Str(1000)}

InitTax ==
    /\ \/ \E p \in TaxCoinbasePlatforms : platforms \in {<<p>>, <<p, SecondPlatform>>}
       \/ \E p \in TaxCoinbaseProPlatforms : platforms \in {<<p>>, <<p, SecondPlatform>>}
    /\ tax = NewFrenchTaxes("EUR")
    /\ last = NoCall
    /\ ncalls = 0

\* every Decimal of the outcome is within the range of the model
Representable(r) ==
    /\ IsDec(r.self.total_acquisition_price)
    /\ IsDec(r.acc.total_capital_gains)
    /\ \A k \in DOMAIN r.acc.sells :
          /\ IsDec(r.acc.sells[k].global_value)
          /\ IsDec(r.acc.sells[k].capital_gain)
          /\ IsDec(r.acc.sells[k].new_total_acquisition_price)

\* the call and its outcome r, on the instance as it was before the call
DeclarationCall(self, fiat_currency, start_time, end_time, r) ==
    [op |-> "get_tax_declaration_for", fiat_currency |-> fiat_currency,
     start_time |-> start_time, end_time |-> end_time,
     raised |-> r.acc.raised, returned |-> r.returned,
     initial_acquisition_price |-> self.total_acquisition_price,
     initial_trades |-> Len(self.buy_transactions) + Len(self.sell_transactions),
     stream |-> r.stream, sells |-> r.acc.sells,
     total_capital_gains |-> r.acc.total_capital_gains]

Declare(fiat_currency, start_time, end_time, r) ==
    /\ ncalls < MaxCalls
    /\ Representable(r)
    /\ tax' = r.self
    /\ ncalls' = ncalls + 1
    /\ last' = DeclarationCall(tax, fiat_currency, start_time, end_time, r)
    /\ UNCHANGED platforms

\* the instance lives on between two calls, an exception included
GetTaxDeclarationFor(fiat_currency, start_time, end_time, user_input) ==
    Declare(fiat_currency, start_time, end_time,
            get_tax_declaration_for(tax, platforms, fiat_currency, start_time,
                                    end_time, user_input))

NextTax ==
    \E start_time \in DeclarationStarts, end_time \in DeclarationEnds,
       user_input \in ManualRates :
        GetTaxDeclarationFor("EUR", start_time, end_time, user_input)

SpecTax == InitTax /\ [][NextTax]_vars

(***************************************************************************)
(* Declarations on a portfolio sold above its valuation: the platform      *)
(* holds 1 BTC, priced 1000 EUR by the finder, and sells 1 BTC for 1010    *)
(* EUR.  The declaration is asked in the currency of the instance or in    *)
(* another one.                                                            *)
(***************************************************************************)
BasisAccounts == <<Account("eur", "EUR", Str(500)), Account("btc", "BTC", Str(1))>>

\* the finder quotes the hour before the first movement too
BasisFinder == Finder("BTC", "EUR", -1, 1000)

\* a buy of 1 BTC for 1000 EUR, a sell of 1 BTC for 1010 EUR
BasisCoinbaseTransactions ==
    { CoinbaseTransaction("btc", "buy", "completed", Str(1), Str(1000), t, t, Str(1)) :
        t \in Times }
    \cup { CoinbaseTransaction("btc", "sell", "completed", MinusStr(1), MinusStr(1010),
                               t, t, Str(1)) : t \in Times }

\* the fiat legs of the same buy and sell
BasisMovements ==
    { Movement("eur", "match", amount, t, "t1") :
        amount \in {MinusStr(1000), Str(1010)}, t \in Times }

BasisCoinbasePlatforms ==
    { CoinbasePlatform(BasisAccounts, transactions, BasisFinder) :
        transactions \in SeqUpTo(BasisCoinbaseTransactions, MaxTx) }

BasisCoinbaseProPlatforms ==
    { CoinbaseProPlatform(BasisAccounts,
                          Append(movements, Movement("eur", "fee", MinusStr(1), 0, "t1")),
                          <<BasisFinder>>) :
        movements \in SeqUpTo(BasisMovements, MaxTx) }

\* a second tracked platform without crypto-assets left: a sell for 100 EUR
\* at the last instant
EmptiedPlatform ==
    CoinbaseProPlatform(
        <<Account("eur", "EUR", Str(100)), Account("btc", "BTC", Str(0))>>,
        <<Movement("eur", "match", Str(100), MaxTime, "t1"),
          Movement("eur", "fee", MinusStr(1), MaxTime, "t1")>>,
        <<BasisFinder>>)

DeclarationCurrencies == {"EUR", "USD"}

InitBasis ==
    /\ \E p \in BasisCoinbasePlatforms \cup BasisCoinbaseProPlatforms :
          platforms \in {<<p>>, <<p, EmptiedPlatform>>}
    /\ tax = NewFrenchTaxes("EUR")
    /\ last = NoCall
    /\ ncalls = 0

NextBasis ==
    \E fiat_currency \in DeclarationCurrencies, end_time \in DeclarationEnds,
       user_input \in ManualRates :
        GetTaxDeclarationFor(fiat_currency, 0, end_time, user_input)

SpecBasis == InitBasis /\ [][NextBasis]_vars

(***************************************************************************)
(* Trade classification: one platform, one traversal of a generator or one *)
(* balance lookup.                                                         *)
(***************************************************************************)
\* trades in EUR and in USD, a transfer that is no trade, and a deposit in USD
\* on the fiat account
TradesCoinbaseTransactions ==
    TaxCoinbaseTransactions
    \cup { [CoinbaseTransaction("btc", type, "completed", Str(1), Str(70), t, t, Str(1))
               EXCEPT !.native_currency = "USD"] : type \in {"buy", "sell"}, t \in Times }
    \cup { CoinbaseTransaction("btc", "send", "completed", MinusStr(1), MinusStr(40),
                               0, 0, Str(0)) }
    \cup { [CoinbaseTransaction("eur", "buy", "completed", Str(70), Str(70), 0, 0, Str(0))
               EXCEPT !.native_currency = "USD"] }

\* fiat legs of both signs and of amount zero, a crypto leg, a deposit
TradesMovements ==
    TaxMovements
    \cup { Movement("eur", "match", Str(0), t, "t1") : t \in Times }
    \cup { Movement("eur", "transfer", Str(50), 0, "t1") }

TradesCoinbasePlatforms ==
    { CoinbasePlatform(TaxAccounts, transactions, TaxFinder) :
        transactions \in SeqUpTo(TradesCoinbaseTransactions, MaxTx) }

TradesCoinbaseProPlatforms ==
    { CoinbaseProPlatform(TaxAccounts, movements \o fees, <<TaxFinder>>) :
        movements \in SeqUpTo(TradesMovements, MaxTx), fees \in TaxFees }

InitTrades ==
    /\ \/ \E p \in TradesCoinbasePlatforms : platforms = <<p>>
       \/ \E p \in TradesCoinbaseProPlatforms : platforms = <<p>>
    /\ tax = NewFrenchTaxes("EUR")
    /\ last = NoCall
    /\ ncalls = 0

\* the traversal of a generator to its end: r is what it yielded and the
\* exception that ended it
TradesCall(op, i, currency, end_time, r) ==
    [op |-> op, platform |-> i, currency |-> currency, end_time |-> end_time,
     raised |-> r.raised, items |-> r.items]

AllBuyTransactionsGenerator(i, currency, end_time) ==
    Answer(TradesCall("all_buy_transactions_generator", i, currency, end_time,
                      all_buy_transactions_generator(platforms[i], currency, end_time)))

AllSellTransactionsGenerator(i, currency, end_time) ==
    Answer(TradesCall("all_sell_transactions_generator", i, currency, end_time,
                      all_sell_transactions_generator(platforms[i], currency, end_time)))

NextTrades ==
    \/ \E i \in DOMAIN platforms, currency \in {"EUR", "USD"}, end_time \in QueryTimes :
          AllBuyTransactionsGenerator(i, currency, end_time)
    \/ \E i \in DOMAIN platforms, currency \in {"EUR", "USD"}, end_time \in QueryTimes :
          AllSellTransactionsGenerator(i, currency, end_time)
    \/ \E i \in DOMAIN platforms, currency \in {"BTC", "XRP"}, time \in QueryTimes :
          GetWalletBalanceAt(i, currency, time)

SpecTrades == InitTrades /\ [][NextTrades]_vars

(***************************************************************************)
(* Sessions: the platforms are loaded once, then queried, traversed and    *)
(* declared on, in any order.                                              *)
(***************************************************************************)
SessionCoinbase ==
    CoinbasePlatform(TaxAccounts,
        <<CoinbaseTransaction("btc", "buy", "completed", Str(1), Str(1000), 0, 0, Str(1)),
          CoinbaseTransaction("btc", "sell", "completed", MinusStr(1), MinusStr(100),
                              MaxTime, MaxTime, Str(1))>>,
        TaxFinder)

SessionCoinbasePro ==
    CoinbaseProPlatform(TaxAccounts,
        <<Movement("eur", "match", MinusStr(1000), 0, "t1"),
          Movement("btc", "match", Str(1), 0, "t1"),
          Movement("eur", "fee", MinusStr(1), 0, "t1")>>,
        <<TaxFinder>>)

InitSession ==
    /\ platforms \in {<<SessionCoinbase>>, <<SessionCoinbasePro>>,
                      <<SessionCoinbase, SecondPlatform>>,
                      <<SessionCoinbasePro, SecondPlatform>>}
    /\ tax = NewFrenchTaxes("EUR")
    /\ last = NoCall
    /\ ncalls = 0

\* a consumed ledger: the call drops the movements it has read
Record_consuming(call) ==
    /\ ncalls < MaxCalls
    /\ last' = call
    /\ ncalls' = ncalls + 1
    /\ platforms' = [platforms EXCEPT ![call.platform].transactions = <<>>]
    /\ UNCHANGED tax

\* a query or a traversal returns: no method writes to the object
Record(call) ==
    /\ ncalls < MaxCalls
    /\ last' = call
    /\ ncalls' = ncalls + 1
    /\ UNCHANGED <<platforms, tax>>

SessionBalance(i, currency, time) ==
    Record(BalanceCall(i, currency, time,
                       get_wallet_balance_at(platforms[i], currency, time)))

SessionValue(i, crypto_currency, fiat_currency, time, user_input) ==
    Record(ValueCall(i, crypto_currency, fiat_currency, time, user_input,
                     get_wallet_value_at(platforms[i], crypto_currency, fiat_currency,
                                         time, user_input)))

SessionAllWallets(i, currency, time, user_input) ==
    Record(AllWalletsCall(i, currency, time, user_input,
                          get_all_wallets_value(platforms[i], currency, time, user_input)))

SessionBuys(i, currency, end_time) ==
    Record(TradesCall("all_buy_transactions_generator", i, currency, end_time,
                      all_buy_transactions_generator(platforms[i], currency, end_time)))

SessionSells(i, currency, end_time) ==
    Record(TradesCall("all_sell_transactions_generator", i, currency, end_time,
                      all_sell_transactions_generator(platforms[i], currency, end_time)))

NextSession ==
    \/ \E i \in DOMAIN platforms, currency \in {"EUR", "BTC"}, time \in QueryTimes :
          SessionBalance(i, currency, time)
    \/ \E i \in DOMAIN platforms, time \in QueryTimes, user_input \in UserInputs :
          SessionValue(i, "BTC", "EUR", time, user_input)
    \/ \E i \in DOMAIN platforms, time \in QueryTimes, user_input \in UserInputs :
          SessionAllWallets(i, "EUR", time, user_input)
    \/ \E i \in DOMAIN platforms, end_time \in QueryTimes :
          SessionBuys(i, "EUR", end_time)
    \/ \E i \in DOMAIN platforms, end_time \in QueryTimes :
          SessionSells(i, "EUR", end_time)
    \/ \E start_time \in DeclarationStarts, end_time \in DeclarationEnds,
          user_input \in ManualRates :
          GetTaxDeclarationFor("EUR", start_time, end_time, user_input)

SpecSession == InitSession /\ [][NextSession]_vars

(***************************************************************************)
(* Averages: the candles of one hour handed to _calculate_average.         *)
(***************************************************************************)
\* 100, 100.5 and 300
CandlePrices == {Float(100, 0), Float(201, 1), Float(300, 0)}
CandleVolumes == {Float(0, 0), Float(1, 0), Float(4, 0)}

FloatValue2(f) == f.mantissa * PowerOfTwo(1 - f.exponent)    \* twice the value
FloatMul(f, g) == Float(f.mantissa * g.mantissa, f.exponent + g.exponent)

CoinbaseProCandles ==
    { <<0, c[1], c[2], c[1], c[2], volume>> :
        c \in { <<low, high>> \in CandlePrices \X CandlePrices :
                  FloatValue2(low) <= FloatValue2(high) },
        volume \in CandleVolumes }

\* the quote volume of a candle lies between low * volume and high * volume
CryptowatchCandles ==
    { <<0, c[1], c[2], c[1], c[2], volume, FloatMul(c[3], volume)>> :
        c \in { <<low, high, traded>> \in CandlePrices \X CandlePrices \X CandlePrices :
                  /\ FloatValue2(low) <= FloatValue2(traded)
                  /\ FloatValue2(traded) <= FloatValue2(high) },
        volume \in CandleVolumes }

InitAverage ==
    /\ platforms = <<>>
    /\ tax = NewFrenchTaxes("EUR")
    /\ ncalls = 0
    /\ \/ \E rates \in SeqUpTo(CoinbaseProCandles, MaxCandles) :
             last = [op |-> "candles", finder |-> "coinbasepro", rates |-> rates]
       \/ \E rates \in SeqUpTo(CryptowatchCandles, MaxCandles) :
             last = [op |-> "candles", finder |-> "cryptowatch", rates |-> rates]

\* the call is followed when its result is within the range of the model
Averaged(average) ==
    /\ IsDec(average)
    /\ last' = [op |-> "_calculate_average", finder |-> last.finder,
                rates |-> last.rates, average |-> average]
    /\ UNCHANGED <<platforms, tax, ncalls>>

CoinbaseProCalculateAverage ==
    /\ last.op = "candles" /\ last.finder = "coinbasepro"
    /\ Averaged(CoinbaseProFinder_calculate_average(last.rates))

CryptowatchCalculateAverage ==
    /\ last.op = "candles" /\ last.finder = "cryptowatch"
    /\ Averaged(CryptowatchFinder_calculate_average(last.rates))

NextAverage == CoinbaseProCalculateAverage \/ CryptowatchCalculateAverage

SpecAverage == InitAverage /\ [][NextAverage]_vars

(***************************************************************************)
(* What the claims speak of, stated on the ledger with integers, apart     *)
(* from the loops above.                                                   *)
(***************************************************************************)
IntOf(str) == IF str.minus THEN -(str.digits[1]) ELSE str.digits[1]

HasAccount(p, currency) == \E i \in DOMAIN p.accounts : p.accounts[i].currency = currency

\* the account get_wallet_balance_at works on
BalanceAccount(p, currency) ==
    LET idx == {i \in DOMAIN p.accounts : p.accounts[i].currency = currency}
    IN  p.accounts[CHOOSE i \in idx : \A j \in idx : j <= i]

TxAccount(p, tx) == IF p.dialect = "coinbase" THEN tx.resource_path[4] ELSE tx.account_id
TxTime(p, tx) == IF p.dialect = "coinbase" THEN tx.updated_at ELSE tx.created_at
\* Coinbase replays the completed transactions, Coinbase Pro every loaded one
Replayed(p, tx) == (p.dialect = "coinbase") => (tx.status = "completed")

RECURSIVE SumAmounts(_, _)
SumAmounts(transactions, S) ==
    IF S = {} THEN 0
    ELSE LET i == CHOOSE k \in S : TRUE
         IN  IntOf(transactions[i].amount) + SumAmounts(transactions, S \ {i})

\* the transactions of the account of the currency dated at or after time
DatedFrom(p, currency, time) ==
    {i \in DOMAIN p.transactions :
        /\ TxAccount(p, p.transactions[i]) = BalanceAccount(p, currency).id
        /\ TxTime(p, p.transactions[i]) >= time}

ReplayedFrom(p, currency, time) ==
    {i \in DatedFrom(p, currency, time) : Replayed(p, p.transactions[i])}

ExpectedBalance(p, currency, time) ==
    IntOf(BalanceAccount(p, currency).balance)
        - SumAmounts(p.transactions, ReplayedFrom(p, currency, time))

IsBalanceCall == last.op = "get_wallet_balance_at" /\ last.raised = ""
IsValueCall == last.op = "get_wallet_value_at" /\ last.raised = ""
IsAllWalletsCall == last.op = "get_all_wallets_value"

\* C1 as claimed: get_wallet_balance_at returns the current balance minus the
\* signed amounts of exactly the transactions of the account dated >= t.
C1_AllTransactionsFrom ==
    IsBalanceCall =>
        LET p == platforms[last.platform] IN
        last.value = Dec(IntOf(BalanceAccount(p, last.currency).balance)
                         - SumAmounts(p.transactions,
                                      DatedFrom(p, last.currency, last.time)))

\* C1 (amended): get_wallet_balance_at returns the current balance minus the
\* signed amounts of exactly the replayed transactions of the account dated
\* >= t (on Coinbase the completed ones, on Coinbase Pro every loaded one):
\* one dated exactly t is undone, one dated before t never changes the result.
C1_BalanceAt ==
    IsBalanceCall =>
        last.value = Dec(ExpectedBalance(platforms[last.platform], last.currency, last.time))

\* a call with a replayed transaction dated exactly t and another one dated before t
C1_Witness ==
    /\ IsBalanceCall
    /\ LET p == platforms[last.platform]
           mine == {i \in DOMAIN p.transactions :
                      /\ TxAccount(p, p.transactions[i]) = BalanceAccount(p, last.currency).id
                      /\ Replayed(p, p.transactions[i])}
       IN  /\ \E i \in mine : TxTime(p, p.transactions[i]) = last.time
           /\ \E i \in mine : TxTime(p, p.transactions[i]) < last.time
           /\ last.value # Decimal(BalanceAccount(p, last.currency).balance)

\* C8: get_wallet_value_at returns exactly zero and asks no price finder and
\* no manual value whenever the reconstructed balance is zero.
C8_ZeroBalanceShortcut ==
    (IsValueCall /\ ExpectedBalance(platforms[last.platform],
                                    last.crypto_currency, last.time) = 0)
        => (last.value = Dec(0) /\ last.queried = <<>> /\ ~last.prompted)

\* a valuation of a wallet whose balance the replay brings down to zero
C8_Witness ==
    /\ IsValueCall
    /\ LET p == platforms[last.platform] IN
       /\ ExpectedBalance(p, last.crypto_currency, last.time) = 0
       /\ IntOf(BalanceAccount(p, last.crypto_currency).balance) # 0
       /\ last.value = Dec(0)

\* every finder of the platform gives the zero sentinel for the pair
NoFinderRate(p, pair, time) ==
    IF p.dialect = "coinbase"
    THEN DecIsZero(get_rate_of(p.price_finder, pair, time))
    ELSE \A k \in DOMAIN p.price_finder :
            DecIsZero(get_rate_of(p.price_finder[k], pair, time))

Unpriced ==
    /\ IsValueCall
    /\ ExpectedBalance(platforms[last.platform], last.crypto_currency, last.time) # 0
    /\ NoFinderRate(platforms[last.platform],
                    <<last.crypto_currency, last.fiat_currency>>, last.time)

\* C9 as claimed: with a non-zero balance and the zero sentinel from the price
\* finders, get_wallet_value_at returns zero and warns.
C9_ZeroAndWarning == Unpriced => (last.value = Dec(0) /\ last.warned)

\* C9 (amended): in that case Coinbase returns zero and warns; Coinbase Pro
\* asks for a manual rate, returns zero and warns when the entered rate is
\* zero, and returns entered rate * balance without a warning otherwise.
C9_ZeroOrManual ==
    Unpriced =>
        LET p == platforms[last.platform]
            balance == ExpectedBalance(p, last.crypto_currency, last.time)
        IN  IF p.dialect = "coinbase"
            THEN last.value = Dec(0) /\ last.warned /\ ~last.prompted
            ELSE /\ last.prompted
                 /\ last.value = Dec(IntOf(last.user_input) * balance)
                 /\ last.warned <=> (IntOf(last.user_input) = 0)

\* an unpriced non-zero balance valued at zero with the warning
C9_Witness == Unpriced /\ last.warned /\ last.value = Dec(0)

\* the rate a valuation uses: the first non-zero finder rate, else on
\* Coinbase Pro the manual value, else zero
RateUsed(p, pair, time, user_input) ==
    IF p.dialect = "coinbase"
    THEN get_rate_of(p.price_finder, pair, time)[1]
    ELSE LET nz == {k \in DOMAIN p.price_finder :
                       ~DecIsZero(get_rate_of(p.price_finder[k], pair, time))}
         IN  IF nz = {} THEN IntOf(user_input)
             ELSE get_rate_of(p.price_finder[CHOOSE k \in nz : \A j \in nz : k <= j],
                              pair, time)[1]

WalletValue(p, crypto_currency, fiat_currency, time, user_input) ==
    LET balance == ExpectedBalance(p, crypto_currency, time) IN
    IF balance = 0 THEN 0
    ELSE RateUsed(p, <<crypto_currency, fiat_currency>>, time, user_input) * balance

RECURSIVE SumWallets(_, _, _, _, _)
SumWallets(p, S, fiat_currency, time, user_input) ==
    IF S = {} THEN 0
    ELSE LET i == CHOOSE k \in S : TRUE
         IN  WalletValue(p, p.accounts[i].currency, fiat_currency, time, user_input)
             + SumWallets(p, S \ {i}, fiat_currency, time, user_input)

\* C10: get_all_wallets_value(fiat, t) is the sum of rate * balance over the
\* accounts whose currency differs from fiat; the fiat account adds nothing.
C10_SumOfWallets ==
    IsAllWalletsCall =>
        LET p == platforms[last.platform] IN
        last.value = Dec(SumWallets(p,
                            {i \in DOMAIN p.accounts : p.accounts[i].currency # last.currency},
                            last.currency, last.time, last.user_input))

\* a portfolio with a fiat account and two valued wallets, one priced by hand
C10_Witness ==
    /\ IsAllWalletsCall
    /\ LET p == platforms[last.platform] IN
       /\ HasAccount(p, last.currency)
       /\ Cardinality({k \in DOMAIN last.wallets : ~DecIsZero(last.wallets[k].value)}) >= 2
       /\ \E k \in DOMAIN last.wallets : last.wallets[k].prompted

(***************************************************************************)
(* Declarations.                                                           *)
(***************************************************************************)
IsDeclaration == last.op = "get_tax_declaration_for"
Completed == IsDeclaration /\ last.raised = ""

DivisionFaults == {"decimal.DivisionByZero", "decimal.InvalidOperation[DivisionUndefined]"}

\* the sum of field f over the records of list at the positions of S
RECURSIVE SumOver(_, _, _)
SumOver(list, f, S) ==
    IF S = {} THEN Dec(0)
    ELSE LET i == CHOOSE k \in S : TRUE
         IN  DecAdd(list[i][f], SumOver(list, f, S \ {i}))

\* the figures of one logged sell are those of the prorata formula for its
\* cession price A, basis P and global value G
Prorata(sell) ==
    /\ sell.capital_gain
          = DecSub(sell.cession_price,
                   DecDiv(DecMul(sell.cession_price, sell.acquisition_price),
                          sell.global_value))
    /\ sell.new_total_acquisition_price
          = DecSub(sell.acquisition_price,
                   DecDiv(DecMul(sell.acquisition_price, sell.cession_price),
                          sell.global_value))

SpecExample(sell) ==
    /\ sell.acquisition_price = Dec(1000)
    /\ sell.cession_price = Dec(100)
    /\ sell.global_value = Dec(2000)

\* C2: on a sell of amount A at portfolio value G with basis P the engine
\* computes capital_gain = A - A*P/G and sets total_acquisition_price to
\* P - P*A/G; P = 1000, A = 100, G = 2000 gives 50 and 950.
C2_ProrataSell ==
    IsDeclaration =>
        /\ \A k \in DOMAIN last.sells :
              /\ Prorata(last.sells[k])
              /\ SpecExample(last.sells[k]) =>
                    /\ last.sells[k].capital_gain = Dec(50)
                    /\ last.sells[k].new_total_acquisition_price = Dec(950)
        /\ (Completed /\ last.stream # <<>> /\ last.stream[Len(last.stream)].type = "sell")
              => tax.total_acquisition_price
                    = last.sells[Len(last.sells)].new_total_acquisition_price

\* the sell of the example, ending a completed declaration
C2_Witness ==
    /\ Completed
    /\ last.stream # <<>>
    /\ last.stream[Len(last.stream)].type = "sell"
    /\ SpecExample(last.sells[Len(last.sells)])
    /\ tax.total_acquisition_price = Dec(950)
    /\ last.total_capital_gains = Dec(50)

\* C3: a sell processed at a global value of zero ends the declaration with
\* InsufficientValuationData, never with a raw division fault.
C3_DedicatedError ==
    IsDeclaration =>
        /\ last.raised \notin DivisionFaults
        /\ \A k \in DOMAIN last.sells : ~DecIsZero(last.sells[k].global_value)
              \/ last.raised = "InsufficientValuationData"

\* C4: every declaration starts from total_acquisition_price = 0 and from an
\* empty trade set, a second call on the same instance included.
C4_StartsFromZero ==
    IsDeclaration =>
        /\ last.initial_acquisition_price = Dec(0)
        /\ last.initial_trades = 0

\* C5: after a stream of buys only, whose amounts sum to B,
\* total_acquisition_price equals B; no fee enters the basis.
C5_BuysOnlyBasis ==
    (/\ Completed
     /\ last.stream # <<>>
     /\ \A k \in DOMAIN last.stream : last.stream[k].type = "buy")
        => tax.total_acquisition_price = SumOver(last.stream, "amount", DOMAIN last.stream)

\* C6: a completed call returns one record per sell in ascending date order,
\* each with date, cession price, fee, the basis before the sell, the global
\* value and the capital gain, and an aggregate that is the sum of the gains.
C6_ReturnsRecords ==
    Completed =>
        /\ ~last.returned.none
        /\ last.returned.records = last.sells
        /\ \A j, k \in DOMAIN last.returned.records :
              j < k => last.returned.records[j].date <= last.returned.records[k].date
        /\ last.returned.aggregate
              = SumOver(last.returned.records, "capital_gain", DOMAIN last.returned.records)

\* C7: a sell dated before start_time updates the basis but is not counted:
\* the declared total is the sum of the gains of the sells dated in
\* [start_time, end_time).
C7_CountsFromStart ==
    Completed =>
        last.total_capital_gains
            = SumOver(last.sells, "capital_gain",
                      {k \in DOMAIN last.sells :
                          /\ last.sells[k].date >= last.start_time
                          /\ last.sells[k].date < last.end_time})

(***************************************************************************)
(* Trade classification.                                                   *)
(***************************************************************************)
IsBuyStream == last.op = "all_buy_transactions_generator"
IsSellStream == last.op = "all_sell_transactions_generator"
IsStream == IsBuyStream \/ IsSellStream

\* the ids of the accounts of a platform held in the currency
AccountsOf(p, currency) ==
    {p.accounts[i].id : i \in {k \in DOMAIN p.accounts : p.accounts[k].currency = currency}}

\* date and amount of each yielded trade, in the order of the stream
Legs(items) == [k \in DOMAIN items |-> <<items[k].date, items[k].amount>>]

\* the 'match' movements of the fiat account dated before end_time whose
\* signed amount is negative (negative = TRUE) or is not (negative = FALSE)
FiatMatches(p, currency, end_time, negative) ==
    SelectSeq(p.transactions,
              LAMBDA m : /\ m.account_id \in AccountsOf(p, currency)
                         /\ m.type = "match"
                         /\ m.created_at < end_time
                         /\ (IntOf(m.amount) < 0) = negative)

MovementLegs(movements) ==
    [k \in DOMAIN movements |-> <<movements[k].created_at, movements[k].amount>>]

\* C11: on Coinbase Pro the buy stream yields exactly the 'match' movements of
\* the fiat account before end_time whose signed amount is negative, and the
\* sell stream exactly those whose signed amount is not negative (zero
\* included), so each such movement is in one stream and only one.
C11_SignDecidesStream ==
    (IsStream /\ last.raised = "" /\ platforms[last.platform].dialect = "coinbasepro")
        => Legs(last.items)
              = MovementLegs(FiatMatches(platforms[last.platform], last.currency,
                                         last.end_time, IsBuyStream))

\* a buy stream that yielded a negative leg and left a leg of amount zero or
\* a positive one, dated before end_time, to the sell stream
C11_Witness ==
    /\ IsBuyStream /\ last.raised = ""
    /\ platforms[last.platform].dialect = "coinbasepro"
    /\ Len(last.items) = 1
    /\ \E m \in {Movement("eur", "match", Str(0), 0, "t1"),
                 Movement("eur", "match", Str(100), 0, "t1")} :
          \E k \in DOMAIN platforms[last.platform].transactions :
              LET t == platforms[last.platform].transactions[k] IN
              /\ t.amount = m.amount /\ t.type = "match" /\ t.account_id = "eur"
              /\ t.created_at < last.end_time

\* the dates of the trades a stream is made of, whatever their date: on
\* Coinbase the transactions of the type of the stream outside the fiat
\* account, on Coinbase Pro the 'match' movements of the fiat account of the
\* sign of the stream
StreamDates(p, currency, buys) ==
    IF p.dialect = "coinbase"
    THEN LET trades == SelectSeq(p.transactions,
                          LAMBDA t : /\ t.resource_path[4] \notin AccountsOf(p, currency)
                                     /\ t.type = (IF buys THEN "buy" ELSE "sell"))
         IN  [k \in DOMAIN trades |-> trades[k].created_at]
    ELSE LET trades == SelectSeq(p.transactions,
                          LAMBDA m : /\ m.account_id \in AccountsOf(p, currency)
                                     /\ m.type = "match"
                                     /\ (IntOf(m.amount) < 0) = buys)
         IN  [k \in DOMAIN trades |-> trades[k].created_at]

ItemDates(items) == [k \in DOMAIN items |-> items[k].date]

C13_NoAccountRaises ==
    ((IsStream \/ last.op = "get_wallet_balance_at")
        /\ ~HasAccount(platforms[last.platform], last.currency))
        => /\ last.raised = "ValueError"
           /\ IsStream => last.items = <<>>

\* a generator asked for a fiat currency without account on a platform that
\* holds trades before end_time
C13_Witness ==
    /\ IsStream
    /\ ~HasAccount(platforms[last.platform], last.currency)
    /\ \E k \in DOMAIN platforms[last.platform].transactions :
          /\ platforms[last.platform].transactions[k].created_at < last.end_time
          /\ platforms[last.platform].transactions[k].type \in {"buy", "sell", "match"}
    /\ last.raised # ""

\* the trades of a Coinbase stream (of its type, outside the fiat account)
\* whose native currency is not the requested one
Mismatched(p, currency, buys) ==
    {k \in DOMAIN p.transactions :
        /\ p.transactions[k].resource_path[4] \notin AccountsOf(p, currency)
        /\ p.transactions[k].type = (IF buys THEN "buy" ELSE "sell")
        /\ p.transactions[k].native_currency # currency}

\* C14: on Coinbase a buy (sell) generator asked for a fiat currency that has
\* an account fails with the currency-mismatch error exactly when a buy
\* (sell) outside the fiat account has another native currency, whatever its
\* date, and every record it yields is in the requested currency.
C14_CurrencyMismatchRaises ==
    (IsStream /\ platforms[last.platform].dialect = "coinbase"
        /\ HasAccount(platforms[last.platform], last.currency))
        => /\ (last.raised = "ValueError")
                 <=> (Mismatched(platforms[last.platform], last.currency, IsBuyStream) # {})
           /\ last.raised \in {"", "ValueError"}
           /\ \A k \in DOMAIN last.items : last.items[k].currency = last.currency

\* a traversal that yielded a trade in the requested currency and then failed
\* on a trade in another one
C14_Witness ==
    /\ IsStream /\ platforms[last.platform].dialect = "coinbase"
    /\ HasAccount(platforms[last.platform], last.currency)
    /\ last.raised = "ValueError"
    /\ Len(last.items) = 1
    /\ Mismatched(platforms[last.platform], last.currency, IsBuyStream) # {}

(***************************************************************************)
(* The merged stream.                                                      *)
(***************************************************************************)
\* the trades the instance holds after loading: buys first, then sells
Collected == tax.buy_transactions \o tax.sell_transactions

\* the call got as far as _merge_and_pre_process_transactions
Merging == IsDeclaration /\ last.raised \in {"", "decimal.InvalidOperation[ConversionSyntax]"}
                             \cup DivisionFaults

\* C15: _merge_and_pre_process_transactions produces one record per collected
\* trade, each with a decimal amount >= 0 and a decimal fee >= 0, whatever the
\* sign of the raw amount and whether or not the trade has a fee movement.
C15_AbsoluteAmountAndFee ==
    Merging =>
        /\ Len(last.stream) = Len(Collected)
        /\ \A k \in DOMAIN last.stream :
              /\ IsDec(last.stream[k].amount) /\ last.stream[k].amount[1] >= 0
              /\ IsDec(last.stream[k].fee) /\ last.stream[k].fee[1] >= 0

\* a raw trade as a record of the merged stream
Normalized(type, trade) ==
    [type |-> type, date |-> trade.date, currency |-> trade.currency,
     amount |-> Dec(Abs(IntOf(trade.amount))), fee |-> Dec(Abs(IntOf(trade.fee)))]

NormalizedAll(type, trades) == [k \in DOMAIN trades |-> Normalized(type, trades[k])]

\* the records of list by ascending date, those of one date in the order they
\* have in list
RECURSIVE ByDateFrom(_, _)
ByDateFrom(list, d) ==
    IF d > MaxTime THEN <<>>
    ELSE SelectSeq(list, LAMBDA x : x.date = d) \o ByDateFrom(list, d + 1)

\* the trades of the platforms from i on in scan order: the buys of a
\* platform, its sells, then the next platform
RECURSIVE ScanOrder(_, _, _)
ScanOrder(i, currency, end_time) ==
    IF i > Len(platforms) THEN <<>>
    ELSE NormalizedAll("buy",
             all_buy_transactions_generator(platforms[i], currency, end_time).items)
         \o NormalizedAll("sell",
             all_sell_transactions_generator(platforms[i], currency, end_time).items)
         \o ScanOrder(i + 1, currency, end_time)

\* the merge went through: the stream was handed to the gains loop
Merged == IsDeclaration /\ last.raised \in {""} \cup DivisionFaults

\* C16 as claimed: the merged stream is the collected trades by ascending
\* date, trades of one date in platform scan order (first declaration of an
\* instance).
C16_TiesInScanOrder ==
    (Merged /\ last.initial_trades = 0)
        => last.stream = ByDateFrom(ScanOrder(1, last.fiat_currency, last.end_time), 0)

\* C16: the merged stream is a permutation of the collected buys and sells,
\* by ascending date, and the trades of one date stand with every buy before
\* every sell, the buys in the order of the buy list and the sells in the
\* order of the sell list (each in platform scan order).
C16_TiesBuysFirst ==
    Merged => last.stream
                 = ByDateFrom(NormalizedAll("buy", tax.buy_transactions)
                                 \o NormalizedAll("sell", tax.sell_transactions), 0)

\* two platforms, a sell of the first and a buy of the second at one date:
\* the buy stands first in the merged stream
C16_Witness ==
    /\ Merged /\ last.initial_trades = 0 /\ Len(platforms) = 2
    /\ \E a, b \in DOMAIN last.stream :
          /\ a < b
          /\ last.stream[a].date = last.stream[b].date
          /\ last.stream[a].type = "buy" /\ last.stream[b].type = "sell"
    /\ last.stream # ByDateFrom(ScanOrder(1, last.fiat_currency, last.end_time), 0)

(***************************************************************************)
(* Averages.  The sums are taken in integers: FloatValue2 is twice the     *)
(* value of a float.                                                       *)
(***************************************************************************)
IsAverage == last.op = "_calculate_average"

\* twice the sum of the volumes (field 6 of a candle of either source)
RECURSIVE SumVolume2(_, _)
SumVolume2(rates, i) ==
    IF i > Len(rates) THEN 0
    ELSE FloatValue2(rates[i][6]) + SumVolume2(rates, i + 1)

\* eight times the sum of midpoint * volume, the midpoint of the fields lo
\* and hi of the candle
RECURSIVE SumMidpointVolume8(_, _, _, _)
SumMidpointVolume8(rates, i, lo, hi) ==
    IF i > Len(rates) THEN 0
    ELSE (FloatValue2(rates[i][lo]) + FloatValue2(rates[i][hi])) * FloatValue2(rates[i][6])
         + SumMidpointVolume8(rates, i + 1, lo, hi)

\* twice the sum of the quote volumes of Cryptowatch candles
RECURSIVE SumQuoteVolume2(_, _)
SumQuoteVolume2(rates, i) ==
    IF i > Len(rates) THEN 0
    ELSE FloatValue2(rates[i][7]) + SumQuoteVolume2(rates, i + 1)

\* average = sum(midpoint_i * volume_i) / sum(volume_i)
IsMidpointMean(average, rates, lo, hi) ==
    average[1] * 4 * SumVolume2(rates, 1) = SumMidpointVolume8(rates, 1, lo, hi) * average[2]

\* C17 as claimed: either finder returns sum(price_i * volume_i) / sum(volume_i)
\* with price_i the midpoint of the candle, and the zero sentinel when the
\* volumes sum to zero.
C17_MidpointMean ==
    IsAverage =>
        IF SumVolume2(last.rates, 1) = 0 THEN last.average = Dec(0)
        ELSE IF last.finder = "coinbasepro"
        THEN IsMidpointMean(last.average, last.rates, 2, 3)
        ELSE IsMidpointMean(last.average, last.rates, 3, 4)

\* C17: the Coinbase Pro finder returns sum(midpoint_i * volume_i) /
\* sum(volume_i), the midpoint being (low + high) / 2; the Cryptowatch finder
\* returns sum(quote_volume_i) / sum(volume_i); either returns the zero
\* sentinel, and no division error, when the list is empty or the volumes
\* sum to zero.
C17_WeightedMean ==
    IsAverage =>
        IF SumVolume2(last.rates, 1) = 0 THEN last.average = Dec(0)
        ELSE IF last.finder = "coinbasepro"
        THEN IsMidpointMean(last.average, last.rates, 2, 3)
        ELSE last.average[1] * SumVolume2(last.rates, 1)
                = SumQuoteVolume2(last.rates, 1) * last.average[2]

\* two Coinbase Pro candles of different midpoints and different volumes
C17_Witness ==
    /\ IsAverage /\ last.finder = "coinbasepro" /\ Len(last.rates) = 2
    /\ last.rates[1][6] = Float(1, 0) /\ last.rates[2][6] = Float(4, 0)
    /\ last.rates[1][2] = Float(100, 0) /\ last.rates[1][3] = Float(201, 1)
    /\ last.rates[2][2] = Float(300, 0) /\ last.rates[2][3] = Float(300, 0)
    /\ last.average = <<5201, 20>>

(***************************************************************************)
(* The price finders of a platform.                                        *)
(***************************************************************************)
\* the finders of p, by position, that give a non-zero rate for the pair
NonZeroFinders(p, pair, time) ==
    {k \in DOMAIN p.price_finder : ~DecIsZero(get_rate_of(p.price_finder[k], pair, time))}

FirstOf(S) == CHOOSE k \in S : \A j \in S : k <= j

\* a Coinbase Pro valuation of a non-zero balance: the one caller of
\* _find_rate_value_from_finders
RateSought ==
    /\ IsValueCall
    /\ platforms[last.platform].dialect = "coinbasepro"
    /\ ExpectedBalance(platforms[last.platform], last.crypto_currency, last.time) # 0

\* C18: _find_rate_value_from_finders asks the finders in list order, stops
\* at the first that gives a non-zero rate and returns that rate, and calls
\* input() only when every finder gave zero.
C18_FirstNonZeroFinder ==
    RateSought =>
        LET p == platforms[last.platform]
            nz == NonZeroFinders(p, <<last.crypto_currency, last.fiat_currency>>, last.time)
        IN  IF nz = {}
            THEN /\ last.queried = [k \in 1..Len(p.price_finder) |-> k]
                 /\ last.prompted
            ELSE /\ last.queried = [k \in 1..FirstOf(nz) |-> k]
                 /\ ~last.prompted
                 /\ last.value
                       = Dec(p.price_finder[FirstOf(nz)].rate
                             * ExpectedBalance(p, last.crypto_currency, last.time))

\* two finders that both quote the pair: the first is asked, the second is not
C18_Witness ==
    /\ RateSought
    /\ NonZeroFinders(platforms[last.platform],
                      <<last.crypto_currency, last.fiat_currency>>, last.time) = {1, 2}
    /\ last.queried = <<1>>
    /\ ~last.prompted

FeesOf(p, currency) ==
    {i \in DOMAIN p.fee : p.fee[i].account_id = BalanceAccount(p, currency).id}

\* a balance asked for at an instant no movement of the account precedes
AtEarliest ==
    /\ IsBalanceCall
    /\ LET p == platforms[last.platform] IN
       /\ \A i \in DOMAIN p.transactions :
             TxAccount(p, p.transactions[i]) = BalanceAccount(p, last.currency).id
                => TxTime(p, p.transactions[i]) >= last.time
       /\ \A i \in FeesOf(p, last.currency) : p.fee[i].created_at >= last.time

\* C20: the balance at an instant not later than any movement of the
\* account, plus the signed amounts of all the completed transactions of the
\* account (the transactions of a Coinbase Pro platform are all settled), is
\* the current balance.
C20_RoundTrip ==
    AtEarliest =>
        LET p == platforms[last.platform] IN
        /\ last.value[2] = 1
        /\ last.value[1]
              + SumAmounts(p.transactions, ReplayedFrom(p, last.currency, last.time))
            = IntOf(BalanceAccount(p, last.currency).balance)

\* an account with two replayed movements that do not cancel out, asked for
\* at the earliest instant
C20_Witness ==
    /\ AtEarliest
    /\ LET p == platforms[last.platform] IN
       /\ Cardinality(ReplayedFrom(p, last.currency, last.time)) = 2
       /\ last.value # Decimal(BalanceAccount(p, last.currency).balance)

(***************************************************************************)
(* Status and ledger of the balance replay.                                *)
(***************************************************************************)
\* a transaction that carries a status other than 'completed'; the movements
\* of a Coinbase Pro account history carry none
NotTerminal(tx) == ("status" \in DOMAIN tx) /\ (tx.status # "completed")

\* the platform without its transactions of a non-terminal status
WithoutNotTerminal(p) ==
    [p EXCEPT !.transactions = SelectSeq(@, LAMBDA tx : ~NotTerminal(tx))]

\* C21: a transaction whose status is not 'completed' is never undone by
\* get_wallet_balance_at, whatever its timestamp: the balance is the one the
\* same ledger gives without these transactions.
C21_NotTerminalNeverUndone ==
    IsBalanceCall =>
        last.value = get_wallet_balance_at(WithoutNotTerminal(platforms[last.platform]),
                                           last.currency, last.time).value

\* a pending transaction of the account dated at or after the instant, and a
\* completed one that is undone
C21_Witness ==
    /\ IsBalanceCall
    /\ LET p == platforms[last.platform] IN
       /\ \E i \in DatedFrom(p, last.currency, last.time) : NotTerminal(p.transactions[i])
       /\ \E i \in DatedFrom(p, last.currency, last.time) : ~NotTerminal(p.transactions[i])
       /\ last.value # Decimal(BalanceAccount(p, last.currency).balance)

\* the fee movements of the account of the currency dated at or after time
FeesFrom(p, currency, time) ==
    {i \in FeesOf(p, currency) : p.fee[i].created_at >= time}

\* the balance the ledger held just before time: the current balance less
\* every settled movement of the account since, fee movements included
LedgerBalance(p, currency, time) ==
    IntOf(BalanceAccount(p, currency).balance)
        - SumAmounts(p.transactions, ReplayedFrom(p, currency, time))
        - SumAmounts(p.fee, FeesFrom(p, currency, time))

\* C22: for any account and any instant t, get_wallet_balance_at returns the
\* balance the ledger held just before t, the ledger being every signed
\* movement the source returned for the account, the movements the loader
\* classifies as fee movements included.
C22_LedgerBalance ==
    IsBalanceCall =>
        last.value = Dec(LedgerBalance(platforms[last.platform], last.currency, last.time))

(***************************************************************************)
(* The global value of a sell.                                             *)
(***************************************************************************)
\* the sum over the platforms at the positions of S of the value of their
\* wallets, each balance being the one the ledger gives for the instant
RECURSIVE PortfolioValue(_, _, _, _, _)
PortfolioValue(platforms_list, S, fiat_currency, time, user_input) ==
    IF S = {} THEN 0
    ELSE LET i == CHOOSE k \in S : TRUE
         IN  SumWallets(platforms_list[i],
                        {a \in DOMAIN platforms_list[i].accounts :
                            platforms_list[i].accounts[a].currency # fiat_currency},
                        fiat_currency, time, user_input)
             + PortfolioValue(platforms_list, S \ {i}, fiat_currency, time, user_input)

\* the position in the stream of the k-th sell, 0 for k = 0
SellPosition(stream, k) ==
    IF k = 0 THEN 0
    ELSE CHOOSE pos \in DOMAIN stream :
            /\ stream[pos].type = "sell"
            /\ Cardinality({j \in 1..pos : stream[j].type = "sell"}) = k

\* the buys of the stream between the (k-1)-th sell and the k-th one
BuysBefore(stream, k) ==
    {j \in DOMAIN stream :
        /\ stream[j].type = "buy"
        /\ j > SellPosition(stream, k - 1)
        /\ j < SellPosition(stream, k)}

\* the cost basis the k-th sell finds: the one the sell before it left (the
\* initial one for the first sell) plus the buys processed since
BasisBefore(call, k) ==
    DecAdd(IF k = 1 THEN call.initial_acquisition_price
           ELSE call.sells[k - 1].new_total_acquisition_price,
           SumOver(call.stream, "amount", BuysBefore(call.stream, k)))

\* C23: for a sell dated d the global value of the formula is the sum over
\* all the tracked platforms of the portfolio value at d - 1 (one
\* millisecond before d), in which every movement dated d, the sell's own
\* included, is undone; the basis of the formula is the one before the sell.
C23_GlobalValueBeforeSell ==
    IsDeclaration =>
        \E user_input \in ManualRates :
            \A k \in DOMAIN last.sells :
                /\ last.sells[k].global_value
                      = Dec(PortfolioValue(platforms, DOMAIN platforms, last.fiat_currency,
                                           last.sells[k].date - 1, user_input))
                /\ last.sells[k].acquisition_price = BasisBefore(last, k)
                /\ Prorata(last.sells[k])

\* two platforms, a Coinbase sell of 1 BTC dated 1 after a buy: the 3 BTC
\* held before the sell, and the BTC of the other platform, at 1000 EUR
C23_Witness ==
    /\ Completed
    /\ Len(platforms) = 2
    /\ platforms[1].dialect = "coinbase"
    /\ \E k \in DOMAIN last.sells :
          /\ last.sells[k].date = 1
          /\ \E i \in DOMAIN platforms[1].transactions :
                /\ platforms[1].transactions[i].type = "sell"
                /\ platforms[1].transactions[i].updated_at = 1
          /\ last.sells[k].acquisition_price = Dec(1000)
          /\ last.sells[k].global_value = Dec(4000)

(***************************************************************************)
(* The cost basis across buys and sells.                                   *)
(***************************************************************************)
\* the part of the basis a sell consumed: cession price minus capital gain
RECURSIVE SumConsumed(_, _)
SumConsumed(sells, S) ==
    IF S = {} THEN Dec(0)
    ELSE LET i == CHOOSE k \in S : TRUE
         IN  DecAdd(DecSub(sells[i].cession_price, sells[i].capital_gain),
                    SumConsumed(sells, S \ {i}))

BuysOf(stream) == {j \in DOMAIN stream : stream[j].type = "buy"}

\* C24: after the buys and sells of a declaration, all with non-zero global
\* values, the sum of the buy amounts equals the remaining
\* total_acquisition_price plus the sum over the sells of cession price
\* minus capital gain.
C24_CostBasisIdentity ==
    Completed =>
        SumOver(last.stream, "amount", BuysOf(last.stream))
            = DecAdd(tax.total_acquisition_price,
                     SumConsumed(last.sells, DOMAIN last.sells))

\* C25: total_acquisition_price is never negative after the buys and sells a
\* declaration processed with positive global values.
C25_BasisNeverNegative ==
    (/\ Completed
     /\ \A k \in DOMAIN last.sells : last.sells[k].global_value[1] > 0)
        => tax.total_acquisition_price[1] >= 0

(***************************************************************************)
(* Trades dated at or after end_time.                                      *)
(***************************************************************************)
\* the ledger of p without the movements dated at or after end_time
WithoutLate(p, end_time) ==
    [p EXCEPT !.transactions = SelectSeq(@, LAMBDA tx : tx.created_at < end_time),
              !.fee = SelectSeq(@, LAMBDA m : m.created_at < end_time)]

\* the traversal of the generator named op
Traversal(op, p, currency, end_time) ==
    IF op = "all_buy_transactions_generator"
    THEN all_buy_transactions_generator(p, currency, end_time)
    ELSE all_sell_transactions_generator(p, currency, end_time)

\* C26: a transaction dated at or after end_time never influences a
\* traversal: on the ledger without those transactions the generator yields
\* the same records and fails in the same cases.
C26_LateTradesIgnored ==
    (last.op \in {"all_buy_transactions_generator", "all_sell_transactions_generator"}) =>
        /\ last.items
              = Traversal(last.op, WithoutLate(platforms[last.platform], last.end_time),
                          last.currency, last.end_time).items
        /\ last.raised
              = Traversal(last.op, WithoutLate(platforms[last.platform], last.end_time),
                          last.currency, last.end_time).raised

(***************************************************************************)
(* Buys and sells of the same date.                                        *)
(***************************************************************************)
\* C27: in the merged sequence no sell stands before a buy of the same date,
\* whatever their platforms: the basis a sell finds holds every buy dated at
\* or before the sell.
C27_BuyBeforeSellOnTies ==
    IsDeclaration =>
        /\ \A j, k \in DOMAIN last.stream :
              (/\ last.stream[j].type = "sell"
               /\ last.stream[k].type = "buy"
               /\ last.stream[j].date = last.stream[k].date) => k < j
        /\ \A k \in DOMAIN last.sells :
              \A j \in BuysOf(last.stream) :
                  last.stream[j].date <= last.sells[k].date
                      => j < SellPosition(last.stream, k)

\* first declaration on two platforms whose trades are all dated MaxTime: the
\* first platform has a sell, the second one the buy; the sell finds the
\* basis of the buy
C27_Witness ==
    /\ Completed
    /\ last.initial_trades = 0
    /\ Len(platforms) = 2
    /\ \E i \in DOMAIN platforms[1].transactions :
          platforms[1].transactions[i].type \in {"sell", "match"}
    /\ Len(last.stream) >= 3
    /\ \A j \in DOMAIN last.stream : last.stream[j].date = MaxTime
    /\ Cardinality(BuysOf(last.stream)) = 1
    /\ last.sells[1].acquisition_price = Dec(1000)

(***************************************************************************)
(* Accounts sharing a currency.                                            *)
(***************************************************************************)
AccountOfId(p, id) == p.accounts[CHOOSE i \in DOMAIN p.accounts : p.accounts[i].id = id]

\* the balance the ledger gives for one account at an instant
BalanceOn(p, account, time) ==
    IntOf(account.balance)
        - SumAmounts(p.transactions,
                     {i \in DOMAIN p.transactions :
                         /\ TxAccount(p, p.transactions[i]) = account.id
                         /\ TxTime(p, p.transactions[i]) >= time
                         /\ Replayed(p, p.transactions[i])})

\* C28: get_wallet_balance_at(currency, t) works on the account
\* _find_account_for_currency(currency) gives, also when several accounts
\* share the currency: the balance returned is the one of that account.
C28_SameAccount ==
    IsBalanceCall =>
        last.value
            = Dec(BalanceOn(platforms[last.platform],
                            AccountOfId(platforms[last.platform],
                                        _find_account_for_currency(platforms[last.platform],
                                                                   last.currency)),
                            last.time))

(***************************************************************************)
(* The currency of a declaration.                                          *)
(***************************************************************************)
\* C29: the gains of get_tax_declaration_for(fiat_currency, start, end) are
\* those of fiat_currency: the trades collected are trades in fiat_currency
\* and the global values are portfolio values in fiat_currency, also when
\* the instance was constructed with another currency.
C29_GainsOfFiatCurrency ==
    IsDeclaration =>
        /\ \A j \in DOMAIN last.stream : last.stream[j].currency = last.fiat_currency
        /\ \E user_input \in ManualRates :
              \A k \in DOMAIN last.sells :
                  last.sells[k].global_value
                      = Dec(PortfolioValue(platforms, DOMAIN platforms, last.fiat_currency,
                                           last.sells[k].date - 1, user_input))

(***************************************************************************)
(* The sign and the size of a capital gain.                                *)
(***************************************************************************)
\* a <= b for two Decimals
DecLe(a, b) == DecSub(b, a)[1] >= 0

\* C30: for every sell with a positive global value the capital gain never
\* exceeds the cession price, and it is non-negative exactly when the cost
\* basis before the sell does not exceed the global value.
C30_GainWithinCessionPrice ==
    IsDeclaration =>
        \A k \in DOMAIN last.sells :
            last.sells[k].global_value[1] > 0 =>
                /\ DecLe(last.sells[k].capital_gain, last.sells[k].cession_price)
                /\ DecLe(Dec(0), last.sells[k].capital_gain)
                      <=> DecLe(last.sells[k].acquisition_price, last.sells[k].global_value)

====
